---------------------------- MODULE Spec2Model ----------------------------
(***************************************************************************)
(* next-updates: the candidate resolution and evidence pipeline.           *)
(*                                                                         *)
(* Five specifications share this module:                                  *)
(*   SpecRisk     the risk classifier and the risk filter                  *)
(*                (src/src/core/candidates/risk-filter.ts)                 *)
(*   SpecWindow   the version-window delta                                 *)
(*                (src/src/cli/evidence/index.ts, lines 87-226, 300-309)   *)
(*   Spec         collectCandidateEvidence and the report step that        *)
(*                consumes it (src/src/cli/evidence/index.ts,              *)
(*                src/unnamed/part_003)                                    *)
(*   SpecLockfile the lockfile builders, the lockfile selector and one     *)
(*                call of the lookup they return                           *)
(*   SpecReport   one run of collectNextUpdatesReport from the root        *)
(*                manifest to the report (src/unnamed/part_003)            *)
(*                                                                         *)
(* Version strings are records: kind "null" is JavaScript null, "empty"    *)
(* is "", "text" is a non-empty string semver cannot parse ("latest"),     *)
(* "semver" is [v]M.m.p[-rc.pre]; pre = 0 means no prerelease component    *)
(* and v = TRUE a leading "v", which semver's parse accepts and strips.    *)
(***************************************************************************)
EXTENDS Integers, Sequences, FiniteSets, TLC

VARIABLES
    \* ---- SpecRisk
    candidates,          \* applyRiskFilter's input list
    risk,                \* the risk option
    groups,              \* classifyRiskGroup of each candidate
    filteredCandidates,  \* applyRiskFilter's return value
    riskPc,              \* "idle" | "ready" | "classified" | "filtered"
    \* ---- SpecWindow
    registry,            \* the registry record of the package, or null
    input,               \* the CandidateEvidenceInput
    versionWindow,       \* the versionWindow of the result
    windowPc,            \* "idle" | "ready" | "done"
    \* ---- Spec: one call of collectCandidateEvidence inside collectNextUpdatesReport
    inputs,              \* collectCandidateEvidence's argument
    tasks,               \* one buildCandidateEvidence activation per input
    fetches,             \* package name -> the registry fetch promises issued for it
    probes,              \* URL -> the reachability probe promises issued for it
    registryCache,       \* package name -> index of the cached promise in fetches
    urlReachableCache,   \* URL -> index of the cached promise in probes
    cacheHits,           \* history: the cache lookups that found a promise
    results,             \* Promise.all: its values array and its state
    candidatesWithEvidence,  \* collectNextUpdatesReport's merged list
    evPc,                \* "idle" | "ready" | "collecting" | "merged"
    \* ---- SpecLockfile: the lockfile builders, the selector and one lookup call
    lockfiles,           \* lockfile type -> the file on disk
    lookupFn,            \* the InstalledVersionLookup a builder returned
    lookupBuilder,       \* the function that was called to build it
    lookupArgs,          \* the arguments of the lookup call
    lookupResult,        \* what the lookup call returned
    lockPc,              \* "idle" | "ready" | "built" | "called"
    \* ---- SpecReport: one run of collectNextUpdatesReport
    env,                 \* the manifests, pnpm-workspace.yaml, the debug dump directory
                         \* and how the suggestion engine will answer
    options,             \* the options of the run (risk is the variable risk)
    workspaceConfig,     \* what hasWorkspaceConfig returned
    scopeEffective,      \* what resolveScopeEffective returned
    ncu,                 \* the suggestion engine's run and what was made of its result
    effects,             \* history: the file and engine operations issued, in order
    report,              \* the report the run resolved with
    reportPc,            \* the position of the run
    \* ---- SpecCalls: two calls of collectCandidateEvidence
    calls                \* the state of each call, once it was made

riskVars == <<candidates, risk, groups, filteredCandidates, riskPc>>
windowVars == <<registry, input, versionWindow, windowPc>>

evVars == <<inputs, tasks, fetches, probes, registryCache, urlReachableCache,
            cacheHits, results, candidatesWithEvidence, evPc>>

lockVars == <<lockfiles, lookupFn, lookupBuilder, lookupArgs, lookupResult, lockPc>>

reportVars == <<env, options, workspaceConfig, scopeEffective, ncu, effects, report,
                reportPc>>

\* The variables of the specifications other than SpecRisk, SpecWindow and Spec
callVars == <<calls>>

laterVars == <<lockVars, reportVars, callVars>>

vars == <<riskVars, windowVars, evVars, laterVars>>

-----------------------------------------------------------------------------
(* Bounds *)

MaxComponent == 1
MaxPre == 1
MaxCandidates == 3
MaxKeys == 2
MaxInputs == 3
MaxChangelogCandidates == 2
MaxLiveInputs == 2
MaxCalls == 2

-----------------------------------------------------------------------------
(* Version strings and the semver package *)

Null == [kind |-> "null", major |-> 0, minor |-> 0, patch |-> 0, pre |-> 0, v |-> FALSE]
Empty == [kind |-> "empty", major |-> 0, minor |-> 0, patch |-> 0, pre |-> 0, v |-> FALSE]
Text == [kind |-> "text", major |-> 0, minor |-> 0, patch |-> 0, pre |-> 0, v |-> FALSE]

SemVer(M, m, p, r) ==
    [kind |-> "semver", major |-> M, minor |-> m, patch |-> p, pre |-> r, v |-> FALSE]

Prefixed(s) == [s EXCEPT !.v = TRUE]

\* JavaScript truthiness of a string | null
Truthy(s) == s.kind \notin {"null", "empty"}

\* semver.parse(s): a SemVer object, or null
parse(s) ==
    IF s.kind = "semver"
    THEN [ok |-> TRUE, major |-> s.major, minor |-> s.minor, patch |-> s.patch, pre |-> s.pre]
    ELSE [ok |-> FALSE, major |-> 0, minor |-> 0, patch |-> 0, pre |-> 0]

\* semver.valid(s): the canonical version string, or null
valid(s) ==
    IF parse(s).ok THEN SemVer(s.major, s.minor, s.patch, s.pre) ELSE Null

\* SemVer.comparePre: a release is greater than any of its prereleases
comparePre(a, b) ==
    IF a.pre = b.pre THEN 0
    ELSE IF a.pre = 0 THEN 1
    ELSE IF b.pre = 0 THEN -1
    ELSE IF a.pre < b.pre THEN -1 ELSE 1

compareMain(a, b) ==
    IF a.major # b.major THEN (IF a.major < b.major THEN -1 ELSE 1)
    ELSE IF a.minor # b.minor THEN (IF a.minor < b.minor THEN -1 ELSE 1)
    ELSE IF a.patch # b.patch THEN (IF a.patch < b.patch THEN -1 ELSE 1)
    ELSE 0

\* semver.compare(a, b) of two parsed versions
compare(a, b) ==
    IF compareMain(a, b) # 0 THEN compareMain(a, b) ELSE comparePre(a, b)

CanonicalVersions ==
    { SemVer(M, m, p, r) : M \in 0..MaxComponent, m \in 0..MaxComponent,
                           p \in 0..MaxComponent, r \in 0..MaxPre }

RawVersions ==
    {Null, Empty, Text} \cup CanonicalVersions \cup { Prefixed(s) : s \in CanonicalVersions }

-----------------------------------------------------------------------------
(* The risk classifier: src/src/core/candidates/risk-filter.ts *)

RiskGroups == {"major", "minor", "patch", "prerelease", "none", "unknown"}
Risks == {"all", "major-only", "non-major", "prerelease-only", "unknown-only"}

classifyRiskGroup_NoRegressionCheck(currentVersion, targetVersion) ==
    IF ~(Truthy(currentVersion) /\ Truthy(targetVersion)) THEN "unknown"
    ELSE LET current == parse(currentVersion)
             target == parse(targetVersion)
         IN  IF ~(current.ok /\ target.ok) THEN "unknown"
             ELSE IF compare(current, target) = 0 THEN "none"
             ELSE IF target.pre > 0 THEN "prerelease"
             ELSE IF target.major > current.major THEN "major"
             ELSE IF target.minor > current.minor THEN "minor"
             ELSE IF target.patch > current.patch THEN "patch"
             ELSE "none"

classifyRiskGroup(currentVersion, targetVersion) ==
    IF ~(Truthy(currentVersion) /\ Truthy(targetVersion)) THEN "unknown"
    ELSE LET current == parse(currentVersion)
             target == parse(targetVersion)
             comparison == compare(current, target)
         IN  IF ~(current.ok /\ target.ok) THEN "unknown"
             ELSE IF comparison = 0 THEN "none"
             ELSE IF comparison > 0 THEN "unknown"
             ELSE IF target.pre > 0 THEN "prerelease"
             ELSE IF target.major > current.major THEN "major"
             ELSE IF target.minor > current.minor THEN "minor"
             ELSE IF target.patch > current.patch THEN "patch"
             ELSE "none"

matchesRiskFilter_NonMajorDropsNone(r, group) ==
    CASE r = "all" -> TRUE
      [] r = "major-only" -> group = "major"
      [] r = "non-major" -> group = "minor" \/ group = "patch"
      [] r = "prerelease-only" -> group = "prerelease"
      [] r = "unknown-only" -> group = "unknown"
      [] OTHER -> TRUE

matchesRiskFilter(r, group) ==
    CASE r = "all" -> TRUE
      [] r = "major-only" -> group = "major"
      [] r = "non-major" -> group = "minor" \/ group = "patch" \/ group = "none"
      [] r = "prerelease-only" -> group = "prerelease"
      [] r = "unknown-only" -> group = "unknown"
      [] OTHER -> TRUE

\* Array.prototype.filter: a new array of the elements the callback keeps
RECURSIVE filter(_, _)
filter(list, r) ==
    IF list = <<>> THEN <<>>
    ELSE LET candidate == Head(list)
             group == classifyRiskGroup(candidate.current.version, candidate.target.version)
         IN  IF matchesRiskFilter(r, group)
             THEN <<candidate>> \o filter(Tail(list), r)
             ELSE filter(Tail(list), r)

RECURSIVE Reverse(_)
Reverse(list) ==
    IF list = <<>> THEN <<>> ELSE Reverse(Tail(list)) \o <<Head(list)>>

applyRiskFilter_Reversed(list, r) ==
    IF r = "all" THEN Reverse(list) ELSE Reverse(filter(list, r))

applyRiskFilter(list, r) ==
    IF r = "all" THEN list ELSE filter(list, r)

-----------------------------------------------------------------------------
(* The version window: src/src/cli/evidence/index.ts *)

\* A registry response body is a record; null stands for fetchRegistryPackage's
\* null. hasVersions is isRecord(registry.versions); versions holds the keys
\* of registry.versions, which the registry publishes in canonical form.
NoRegistry == [ok |-> FALSE, hasVersions |-> FALSE, versions |-> {}, repository |-> "none"]

RegistryPackage(hasV, keys, repo) ==
    [ok |-> TRUE, hasVersions |-> hasV, versions |-> keys, repository |-> repo]

createEmptyVersionWindow ==
    [delta |-> [major |-> 0, minor |-> 0, patch |-> 0, prerelease |-> 0]]

gte(a, b) == compare(parse(a), parse(b)) >= 0
lte(a, b) == compare(parse(a), parse(b)) <= 0

\* Array.prototype.sort(compare) of a set of valid version strings
RECURSIVE SortedByCompare(_)
SortedByCompare(S) ==
    IF S = {} THEN <<>>
    ELSE LET least == CHOOSE x \in S : \A y \in S : compare(parse(x), parse(y)) <= 0
         IN  CHOOSE sorted \in { <<first>> \o SortedByCompare(S \ {first}) :
                                    first \in {least} } : TRUE

getRegistryVersionKeys(reg) ==
    IF ~reg.hasVersions THEN <<>>
    ELSE SortedByCompare({ version \in reg.versions : Truthy(valid(version)) })

semverMajor(value) == parse(value).major
semverMinor(value) == parse(value).minor
semverPatch(value) == parse(value).patch
semverPrerelease(value) == parse(value).ok /\ parse(value).pre > 0

\* One turn of countVersionDelta's loop
countVersion(delta, version, base) ==
    IF version = base THEN delta
    ELSE IF semverPrerelease(version)
        THEN [delta EXCEPT !.prerelease = @ + 1]
    ELSE IF semverMajor(version) > semverMajor(base)
        THEN [delta EXCEPT !.major = @ + 1]
    ELSE IF semverMajor(version) = semverMajor(base)
            /\ semverMinor(version) > semverMinor(base)
        THEN [delta EXCEPT !.minor = @ + 1]
    ELSE IF semverMajor(version) = semverMajor(base)
            /\ semverMinor(version) = semverMinor(base)
            /\ semverPatch(version) > semverPatch(base)
        THEN [delta EXCEPT !.patch = @ + 1]
    ELSE delta

RECURSIVE countFrom(_, _, _)
countFrom(delta, versions, base) ==
    IF versions = <<>> THEN delta
    ELSE countFrom(countVersion(delta, Head(versions), base), Tail(versions), base)

countVersionDelta_NoSkip(versions, base) ==
    countFrom(createEmptyVersionWindow.delta, versions, Null)

countVersionDelta(versions, base) ==
    countFrom(createEmptyVersionWindow.delta, versions, base)

InWindow_ExcludesTarget(from, to, version) ==
    gte(version, from) /\ compare(parse(version), parse(to)) < 0

InWindow(from, to, version) == gte(version, from) /\ lte(version, to)

buildVersionWindow(reg, installed, target) ==
    LET from == valid(installed)
        to == valid(target)
    IN  IF ~(Truthy(from) /\ Truthy(to)) THEN createEmptyVersionWindow
        ELSE IF compare(parse(from), parse(to)) > 0 THEN createEmptyVersionWindow
        ELSE LET versionKeys == getRegistryVersionKeys(reg)
                 window == SelectSeq(versionKeys, LAMBDA version : InWindow(from, to, version))
             IN  CHOOSE counted \in
                     { [delta |-> countVersionDelta(versions, base)] :
                         versions \in {window}, base \in {from} } : TRUE

\* buildCandidateEvidence, lines 87-94
candidateVersionWindow(reg, installed, target) ==
    IF reg.ok /\ Truthy(installed) /\ Truthy(target)
    THEN buildVersionWindow(reg, installed, target)
    ELSE createEmptyVersionWindow

-----------------------------------------------------------------------------
(* SpecWindow: inputs of the version window *)

EvidenceInput(name, installed, target) ==
    [packageName |-> name, installedVersion |-> installed, targetVersion |-> target]

WindowVersions ==
    { SemVer(M, m, p, r) : M \in 1..2, m \in 0..1, p \in 0..1, r \in 0..1 }

WindowInputs ==
    {Null, Empty, Text} \cup WindowVersions \cup { Prefixed(s) : s \in WindowVersions }

WindowRegistries ==
    {NoRegistry, RegistryPackage(FALSE, {}, "none")}
        \cup { RegistryPackage(TRUE, keys, "none") :
                 keys \in { K \in SUBSET (WindowVersions \cup {Text}) : Cardinality(K) <= MaxKeys } }

IdleWindow ==
    /\ registry = NoRegistry
    /\ input = EvidenceInput("a", Null, Null)
    /\ versionWindow = createEmptyVersionWindow
    /\ windowPc = "idle"

IdleEvidence ==
    /\ inputs = <<>>
    /\ tasks = <<>>
    /\ fetches = <<>>
    /\ probes = <<>>
    /\ registryCache = <<>>
    /\ urlReachableCache = <<>>
    /\ cacheHits = {}
    /\ results = [state |-> "pending", values |-> <<>>]
    /\ candidatesWithEvidence = <<>>
    /\ evPc = "idle"

IdleRisk ==
    /\ candidates = <<>>
    /\ risk = "all"
    /\ groups = <<>>
    /\ filteredCandidates = <<>>
    /\ riskPc = "idle"

IdleLockfile ==
    /\ lockfiles = <<>>
    /\ lookupFn = [type |-> "none"]
    /\ lookupBuilder = "none"
    /\ lookupArgs = <<>>
    /\ lookupResult = [t |-> "undefined"]
    /\ lockPc = "idle"

NoEnv == [manifests |-> <<>>, workspaceYaml |-> <<>>, dumpDir |-> "none", engine |-> <<>>]
NotRun == [state |-> "notRun", raw |-> [t |-> "undefined"], upgraded |-> [t |-> "undefined"],
           targetVersions |-> <<>>]
NoReport == [generatedAt |-> "none"]

IdleReport ==
    /\ env = NoEnv
    /\ options = [scope |-> "root"]
    /\ workspaceConfig = FALSE
    /\ scopeEffective = "none"
    /\ ncu = NotRun
    /\ effects = <<>>
    /\ report = NoReport
    /\ reportPc = "idle"

IdleCalls == calls = <<>>

IdleLater == IdleLockfile /\ IdleReport /\ IdleCalls

InitWindow ==
    /\ registry \in WindowRegistries
    /\ input \in { EvidenceInput("a", installed, target) :
                      installed \in WindowInputs, target \in WindowInputs }
    /\ versionWindow = createEmptyVersionWindow
    /\ windowPc = "ready"
    /\ IdleRisk
    /\ IdleEvidence
    /\ IdleLater

ComputeVersionWindow ==
    /\ windowPc = "ready"
    /\ versionWindow' =
          candidateVersionWindow(registry, input.installedVersion, input.targetVersion)
    /\ windowPc' = "done"
    /\ UNCHANGED <<registry, input>>
    /\ UNCHANGED <<riskVars, evVars, laterVars>>

NextWindow == ComputeVersionWindow

SpecWindow == InitWindow /\ [][NextWindow]_vars

-----------------------------------------------------------------------------
(* Claims about the version window (SpecWindow) *)

\* The same registry without the key that is the installed version
WithoutInstalled(reg, installed) ==
    [reg EXCEPT !.versions = @ \ {valid(installed)}]

SumOfBuckets(w) == w.delta.major + w.delta.minor + w.delta.patch + w.delta.prerelease

\* C7: the version-window delta never counts the installed version itself in
\* any bucket, and it is zero in all four buckets whenever the installed or
\* target version is null or not a valid semantic version, the registry
\* metadata is unavailable, or target < installed.
C7_InstalledNotCountedAndEmptyCases ==
    windowPc = "done" =>
        /\ versionWindow =
              candidateVersionWindow(WithoutInstalled(registry, input.installedVersion),
                                     input.installedVersion, input.targetVersion)
        /\ SumOfBuckets(versionWindow) <=
              Cardinality({ k \in registry.versions \ {valid(input.installedVersion)} : parse(k).ok })
        /\ ( \/ ~registry.ok
             \/ ~parse(input.installedVersion).ok
             \/ ~parse(input.targetVersion).ok
             \/ compare(parse(input.targetVersion), parse(input.installedVersion)) < 0 )
               => versionWindow = createEmptyVersionWindow

\* The installed version is a published prerelease written with a leading v;
\* the window holds it and the target, and only the target is counted
C7_Witness ==
    /\ windowPc = "done"
    /\ registry.ok
    /\ input.installedVersion.kind = "semver" /\ input.installedVersion.pre > 0 /\ input.installedVersion.v
    /\ input.targetVersion.kind = "semver"
    /\ registry.versions = {valid(input.installedVersion), valid(input.targetVersion)}
    /\ SumOfBuckets(versionWindow) = 1

\* The same registry without the key that is the target version
WithoutTarget(reg, target) ==
    [reg EXCEPT !.versions = @ \ {valid(target)}]

\* The same registry with only the keys v, installed < v <= target
WithinWindow(reg, installed, target) ==
    [reg EXCEPT !.versions =
        { k \in @ : /\ parse(k).ok
                    /\ compare(parse(k), parse(installed)) > 0
                    /\ compare(parse(k), parse(target)) <= 0 }]

\* The target is published, newer than installed, and not the release of an
\* installed prerelease with the same major.minor.patch
TargetIsCountable ==
    /\ registry.ok /\ registry.hasVersions
    /\ parse(input.installedVersion).ok /\ parse(input.targetVersion).ok
    /\ valid(input.targetVersion) \in registry.versions
    /\ compare(parse(input.targetVersion), parse(input.installedVersion)) > 0
    /\ \/ parse(input.targetVersion).pre > 0
       \/ compareMain(parse(input.targetVersion), parse(input.installedVersion)) # 0

WindowOthers ==
    { k \in registry.versions :
        /\ parse(k).ok
        /\ k # valid(input.installedVersion)
        /\ compare(parse(k), parse(input.installedVersion)) >= 0
        /\ compare(parse(k), parse(input.targetVersion)) <= 0 }

\* The bucket the claim gives a version of the window
BucketOf(k) ==
    LET version == parse(k)
        base == parse(input.installedVersion)
    IN  IF version.pre > 0 THEN "prerelease"
        ELSE IF version.major > base.major THEN "major"
        ELSE IF version.major = base.major /\ version.minor > base.minor THEN "minor"
        ELSE IF version.major = base.major /\ version.minor = base.minor
                /\ version.patch > base.patch THEN "patch"
        ELSE "none"

\* C21: when installed <= target are valid, every valid registry version in
\* the inclusive range [installed, target] other than the installed version
\* increments exactly one of the four buckets, so the sum of the four counts
\* equals the number of such versions: a prerelease version counts as
\* prerelease whatever its numbers, and a release version counts under the
\* first component (major, then minor, then patch) that exceeds installed's
\* with all higher components equal.
C21_EveryWindowVersionInOneBucket ==
    ( /\ windowPc = "done"
      /\ registry.ok /\ registry.hasVersions
      /\ parse(input.installedVersion).ok /\ parse(input.targetVersion).ok
      /\ compare(parse(input.installedVersion), parse(input.targetVersion)) <= 0 ) =>
        /\ SumOfBuckets(versionWindow) = Cardinality(WindowOthers)
        /\ \A bucket \in {"major", "minor", "patch", "prerelease"} :
              versionWindow.delta[bucket] =
                  Cardinality({ k \in WindowOthers : BucketOf(k) = bucket })

-----------------------------------------------------------------------------
(* The evidence collector: src/src/cli/evidence/index.ts *)

\* Links and URLs are records: kind names the template the code fills in
\* ("releasesLatest": <repo>/releases/latest, "releases": <repo>/releases,
\* "raw": https://raw.githubusercontent.com/<repo>/HEAD/<path>, "compare":
\* <repo>/compare/<from>...<to>, "npmDiff": the npm diff command), and the
\* other fields are what is substituted.
NoTag == [form |-> "", name |-> "", version |-> Null, encoded |-> FALSE]
Tag(form, name, version) ==
    [form |-> form, name |-> name, version |-> version, encoded |-> FALSE]

\* undefined | null
NoLink == [kind |-> "undefined", repo |-> "", path |-> "", from |-> NoTag, to |-> NoTag]
Link(kind, repo, path, from, to) ==
    [kind |-> kind, repo |-> repo, path |-> path, from |-> from, to |-> to]

IsLink(l) == l.kind # "undefined"

buildNpmDiffLink_OnlyValidVersions(packageName, installed, target) ==
    IF ~(Truthy(valid(installed)) /\ Truthy(valid(target))) THEN NoLink
    ELSE Link("npmDiff", "", "", Tag("npm", packageName, installed),
              Tag("npm", packageName, target))

buildNpmDiffLink(packageName, installed, target) ==
    IF ~(Truthy(installed) /\ Truthy(target)) THEN NoLink
    ELSE Link("npmDiff", "", "", Tag("npm", packageName, installed),
              Tag("npm", packageName, target))

\* registry.repository: form is how the value is written, path the owner/repo
\* it names. normalizeRepositoryUrl yields https://github.com/<path>, which
\* the model writes <path>, or null, which the model writes "".
Repository(form, path) == [form |-> form, path |-> path]
NoRepository == Repository("undefined", "")
GitHubForms == {"git+https://github.com/", "github:", "git@github.com:", "https://github.com/"}

normalizeRepositoryUrl_AnyHost(repository) ==
    IF repository.path # "" THEN repository.path ELSE ""

normalizeRepositoryUrl(repository) ==
    IF repository.form \in GitHubForms /\ repository.path # "" THEN repository.path ELSE ""

normalizeTagVersion(version) ==
    IF version.kind = "empty" THEN Null
    ELSE IF version.kind = "semver" /\ version.v THEN valid(version)
    ELSE version

ScopedNames == {"@s/b"}

getUnscopedPackageName(packageName) ==
    IF packageName = "@s/b" THEN "b" ELSE packageName

buildCompareTagPairs_BareFirst(packageName, fromVersion, toVersion) ==
    LET unscoped == getUnscopedPackageName(packageName)
        pairs == << [from |-> Tag("bare", "", fromVersion), to |-> Tag("bare", "", toVersion)],
                    [from |-> Tag("v", "", fromVersion), to |-> Tag("v", "", toVersion)],
                    [from |-> Tag("name@", packageName, fromVersion),
                     to |-> Tag("name@", packageName, toVersion)] >>
    IN  IF unscoped # "" /\ unscoped # packageName
        THEN Append(pairs, [from |-> Tag("name@", unscoped, fromVersion),
                            to |-> Tag("name@", unscoped, toVersion)])
        ELSE pairs

buildCompareTagPairs(packageName, fromVersion, toVersion) ==
    LET unscoped == getUnscopedPackageName(packageName)
        pairs == << [from |-> Tag("v", "", fromVersion), to |-> Tag("v", "", toVersion)],
                    [from |-> Tag("bare", "", fromVersion), to |-> Tag("bare", "", toVersion)],
                    [from |-> Tag("name@", packageName, fromVersion),
                     to |-> Tag("name@", packageName, toVersion)] >>
    IN  IF unscoped # "" /\ unscoped # packageName
        THEN Append(pairs, [from |-> Tag("name@", unscoped, fromVersion),
                            to |-> Tag("name@", unscoped, toVersion)])
        ELSE pairs

\* encodeURIComponent is one-to-one on tags
encodeGitTag(tag) == [tag EXCEPT !.encoded = TRUE]

buildCompareUrl(repoUrl, pair) ==
    Link("compare", repoUrl, "", encodeGitTag(pair.from), encodeGitTag(pair.to))

ConventionalChangelogPaths ==
    << "CHANGELOG.md", "CHANGELOG", "CHANGES.md", "HISTORY.md", "NEWS.md", "RELEASES.md",
       "docs/CHANGELOG.md", "docs/CHANGES.md", "docs/HISTORY.md", "docs/NEWS.md",
       "changelog.md", "docs/changelog.md" >>

\* The model probes the first MaxChangelogCandidates of the twelve paths
ChangelogCandidates == SubSeq(ConventionalChangelogPaths, 1, MaxChangelogCandidates)

\* `${rawBase}${candidate}`; buildRawGithubBaseUrl never fails on a normalized URL
ChangelogUrl(repositoryUrl, i) == Link("raw", repositoryUrl, ChangelogCandidates[i], NoTag, NoTag)

LatestUrl(repositoryUrl) == Link("releasesLatest", repositoryUrl, "", NoTag, NoTag)
ReleasesUrl(repositoryUrl) == Link("releases", repositoryUrl, "", NoTag, NoTag)

LinkKeys == {"compare", "npmDiffLink", "releases", "changelog"}

NullEvidence == [isNull |-> TRUE, links |-> [k \in {} |-> NoLink]]

buildEvidenceLinks_NeverNull(links) ==
    [isNull |-> FALSE, links |-> [k \in { key \in LinkKeys : IsLink(links[key]) } |-> links[k]]]

buildEvidenceLinks(links) ==
    LET cleaned == [k \in { key \in LinkKeys : IsLink(links[key]) } |-> links[k]]
    IN  IF DOMAIN cleaned = {} THEN NullEvidence
        ELSE [isNull |-> FALSE, links |-> cleaned]

\* ---- Promises

Pending == [state |-> "pending", registry |-> NoRegistry, reachable |-> FALSE]
FulfilledRegistry(reg) == [state |-> "fulfilled", registry |-> reg, reachable |-> FALSE]
FulfilledReachable(b) == [state |-> "fulfilled", registry |-> NoRegistry, reachable |-> b]
Rejected == [state |-> "rejected", registry |-> NoRegistry, reachable |-> FALSE]

\* What the network answers to the registry GET: the fetch rejects ("error"),
\* the status is not OK, the body is not JSON, the body is JSON but no object,
\* or the body is an object
RegistryResponse(type, body) == [type |-> type, body |-> body]

fetchRegistryPackage_NoCatch(response) ==
    CASE response.type = "error" -> Rejected
      [] response.type = "notOk" -> FulfilledRegistry(NoRegistry)
      [] response.type = "notJson" -> Rejected
      [] response.type = "notObject" -> FulfilledRegistry(NoRegistry)
      [] OTHER -> FulfilledRegistry(response.body)

\* fetchRegistryPackage, once the network has answered
fetchRegistryPackage(response) ==
    CASE response.type = "error" -> FulfilledRegistry(NoRegistry)
      [] response.type = "notOk" -> FulfilledRegistry(NoRegistry)
      [] response.type = "notJson" -> FulfilledRegistry(NoRegistry)
      [] response.type = "notObject" -> FulfilledRegistry(NoRegistry)
      [] OTHER -> FulfilledRegistry(response.body)

\* What the network answers to a HEAD probe: the fetch rejects ("error"), or
\* a response with a status arrives
ProbeResponse(type, status) == [type |-> type, status |-> status]
StatusOk == 200
StatusLimit == 400

checkUrl_NoCatch(response) ==
    IF response.type = "error" THEN Rejected
    ELSE FulfilledReachable(response.status >= StatusOk /\ response.status < StatusLimit)

\* checkUrl, once the network has answered
checkUrl(response) ==
    IF response.type = "error" THEN FulfilledReachable(FALSE)
    ELSE FulfilledReachable(response.status >= StatusOk /\ response.status < StatusLimit)

\* ---- The state of one collectCandidateEvidence call, as a record the
\* ---- operators below thread through the synchronous code between two awaits

Lookup(f, k, default) == IF k \in DOMAIN f THEN f[k] ELSE default

SeenRegistry(p) ==
    IF p.state = "pending" THEN "pending" ELSE IF p.registry.ok THEN "record" ELSE "null"
SeenReachable(p) ==
    IF p.state = "pending" THEN "pending" ELSE IF p.reachable THEN "true" ELSE "false"

\* getRegistryPackage: the state after the call and the promise it returns
getRegistryPackage(s, packageName) ==
    IF packageName \in DOMAIN s.registryCache
    THEN LET cached == s.registryCache[packageName]
         IN  [s |-> [s EXCEPT !.cacheHits = @ \cup
                        {[cache |-> "registry",
                          seen |-> SeenRegistry(s.fetches[packageName][cached])]}],
              promise |-> cached]
    ELSE LET issued == Lookup(s.fetches, packageName, <<>>)
         IN  [s |-> [s EXCEPT !.fetches = (packageName :> Append(issued, Pending)) @@ @,
                              !.registryCache = (packageName :> Len(issued) + 1) @@ @],
              promise |-> Len(issued) + 1]

isUrlReachable_SetAfterSettle(s, url) ==
    LET issued == Lookup(s.probes, url, <<>>)
    IN  IF url \in DOMAIN s.urlReachableCache
           /\ s.probes[url][s.urlReachableCache[url]].state # "pending"
        THEN [s |-> s, promise |-> s.urlReachableCache[url]]
        ELSE [s |-> [s EXCEPT !.probes = (url :> Append(issued, Pending)) @@ @,
                              !.urlReachableCache = (url :> Len(issued) + 1) @@ @],
              promise |-> Len(issued) + 1]

\* isUrlReachable: the state after the call and the promise it returns
isUrlReachable(s, url) ==
    IF url \in DOMAIN s.urlReachableCache
    THEN LET cached == s.urlReachableCache[url]
         IN  [s |-> [s EXCEPT !.cacheHits = @ \cup
                        {[cache |-> "url", seen |-> SeenReachable(s.probes[url][cached])]}],
              promise |-> cached]
    ELSE LET issued == Lookup(s.probes, url, <<>>)
         IN  [s |-> [s EXCEPT !.probes = (url :> Append(issued, Pending)) @@ @,
                              !.urlReachableCache = (url :> Len(issued) + 1) @@ @],
              promise |-> Len(issued) + 1]

\* await isUrlReachable(url, urlReachableCache) in task i
AwaitUrl(s, i, url, pc) ==
    CHOOSE awaited \in
        { [r.s EXCEPT !.tasks[i].pc = pc, !.tasks[i].url = url, !.tasks[i].awaiting = r.promise] :
            r \in { isUrlReachable(state, url) : state \in {s} } } : TRUE

NoResult == [versionWindow |-> createEmptyVersionWindow, evidence |-> NullEvidence]

NewTask(inp) ==
    [pc |-> "init", input |-> inp, awaiting |-> 0, url |-> NoLink, idx |-> 0,
     registry |-> NoRegistry, npmDiffLink |-> NoLink, releases |-> NoLink,
     changelog |-> NoLink, compare |-> NoLink, result |-> NoResult]

resolveElement_InCompletionOrder(values, index, value) ==
    LET free == CHOOSE k \in 1..Len(values) :
                    ~values[k].set /\ \A j \in 1..(k - 1) : values[j].set
    IN  [values EXCEPT ![free] = [set |-> TRUE, value |-> value]]

\* Promise.all's resolve-element function of input index
resolveElement(values, index, value) ==
    [values EXCEPT ![index] = [set |-> TRUE, value |-> value]]

PromiseAllFulfil_AtFirstValue(res, i, value) ==
    IF res.state # "pending" THEN res
    ELSE [state |-> "fulfilled", values |-> resolveElement(res.values, i, value)]

\* Promise.all, when the promise of input i fulfils with value
PromiseAllFulfil(res, i, value) ==
    IF res.state # "pending" THEN res
    ELSE LET values == resolveElement(res.values, i, value)
         IN  [state |-> IF \A k \in 1..Len(values) : values[k].set
                        THEN "fulfilled" ELSE "pending",
              values |-> values]

\* Promise.all, when the promise of an input rejects
PromiseAllReject(res) ==
    IF res.state # "pending" THEN res ELSE [res EXCEPT !.state = "rejected"]

\* buildCandidateEvidence, lines 107-115: the return
Return(s, i) ==
    LET t == s.tasks[i]
        result == [versionWindow |->
                       candidateVersionWindow(t.registry, t.input.installedVersion,
                                              t.input.targetVersion),
                   evidence |->
                       buildEvidenceLinks([compare |-> t.compare,
                                           npmDiffLink |-> t.npmDiffLink,
                                           releases |-> t.releases,
                                           changelog |-> t.changelog])]
    IN  CHOOSE returned \in
            { [s EXCEPT !.tasks[i].pc = "done",
                        !.tasks[i].result = value,
                        !.results = PromiseAllFulfil(@, i, value)] : value \in {result} } : TRUE

\* an awaited promise rejected: buildCandidateEvidence has no try, it rejects
Throw(s, i) ==
    [s EXCEPT !.tasks[i].pc = "rejected", !.results = PromiseAllReject(@)]

CompareTagPairs(t) ==
    buildCompareTagPairs(t.input.packageName,
                         normalizeTagVersion(t.input.installedVersion),
                         normalizeTagVersion(t.input.targetVersion))

\* buildCandidateEvidence, lines 87-105, up to buildCompareEvidence's first await
AfterRepositoryLinks(s, i) ==
    LET t == s.tasks[i]
        repositoryUrl == normalizeRepositoryUrl(t.registry.repository)
    IN  IF ~(t.registry.ok /\ Truthy(t.input.installedVersion)
                /\ Truthy(t.input.targetVersion))
            THEN Return(s, i)
        ELSE IF repositoryUrl = "" THEN Return(s, i)
        ELSE IF ~(Truthy(normalizeTagVersion(t.input.installedVersion))
                    /\ Truthy(normalizeTagVersion(t.input.targetVersion)))
            THEN Return(s, i)
        ELSE AwaitUrl([s EXCEPT !.tasks[i].idx = 1], i,
                      buildCompareUrl(repositoryUrl, CompareTagPairs(t)[1]), "awaitCompare")

\* buildCandidateEvidence, lines 76-82: the synchronous start of task i
StartTask(s, i) ==
    LET inp == s.tasks[i].input
        r == getRegistryPackage(s, inp.packageName)
    IN  [r.s EXCEPT !.tasks[i].npmDiffLink =
                        buildNpmDiffLink(inp.packageName, inp.installedVersion,
                                         inp.targetVersion),
                    !.tasks[i].pc = "awaitRegistry",
                    !.tasks[i].awaiting = r.promise]

AwaitedPromise(s, i) ==
    LET t == s.tasks[i]
    IN  IF t.pc = "awaitRegistry" THEN s.fetches[t.input.packageName][t.awaiting]
        ELSE s.probes[t.url][t.awaiting]

\* Task i runs from the await it is suspended at to its next await or its end
Resume(s, i) ==
    LET t == s.tasks[i]
        p == AwaitedPromise(s, i)
        repositoryUrl == normalizeRepositoryUrl(t.registry.repository)
    IN  IF p.state = "rejected" THEN Throw(s, i)
        ELSE CASE t.pc = "awaitRegistry" ->
                    LET s1 == [s EXCEPT !.tasks[i].registry = p.registry]
                        url == normalizeRepositoryUrl(p.registry.repository)
                    IN  IF p.registry.ok /\ url # ""
                        THEN AwaitUrl(s1, i, LatestUrl(url), "awaitReleases")
                        ELSE AfterRepositoryLinks(s1, i)
               [] t.pc = "awaitReleases" ->
                    LET s1 == [s EXCEPT !.tasks[i].releases =
                                  IF p.reachable THEN ReleasesUrl(repositoryUrl) ELSE NoLink,
                                        !.tasks[i].idx = 1]
                    IN  AwaitUrl(s1, i, ChangelogUrl(repositoryUrl, 1), "awaitChangelog")
               [] t.pc = "awaitChangelog" ->
                    IF p.reachable
                        THEN AfterRepositoryLinks([s EXCEPT !.tasks[i].changelog = t.url], i)
                    ELSE IF t.idx < Len(ChangelogCandidates)
                        THEN AwaitUrl([s EXCEPT !.tasks[i].idx = t.idx + 1], i,
                                      ChangelogUrl(repositoryUrl, t.idx + 1), "awaitChangelog")
                    ELSE AfterRepositoryLinks(s, i)
               [] t.pc = "awaitCompare" ->
                    IF p.reachable
                        THEN Return([s EXCEPT !.tasks[i].compare = t.url], i)
                    ELSE IF t.idx < Len(CompareTagPairs(t))
                        THEN AwaitUrl([s EXCEPT !.tasks[i].idx = t.idx + 1], i,
                                      buildCompareUrl(repositoryUrl,
                                                      CompareTagPairs(t)[t.idx + 1]),
                                      "awaitCompare")
                    ELSE Return(s, i)

Suspended(t) == t.pc \in {"awaitRegistry", "awaitReleases", "awaitChangelog", "awaitCompare"}

Runnable(s, i) == Suspended(s.tasks[i]) /\ AwaitedPromise(s, i).state # "pending"

\* The microtask queue is drained before the next network event is handled:
\* every task whose awaited promise has settled runs on
RECURSIVE Drain(_)
Drain(s) ==
    IF \E i \in 1..Len(s.tasks) : Runnable(s, i)
    THEN LET i == CHOOSE k \in 1..Len(s.tasks) :
                      Runnable(s, k) /\ \A j \in 1..(k - 1) : ~Runnable(s, j)
         IN  CHOOSE drained \in { Drain(resumed) : resumed \in {Resume(s, i)} } : TRUE
    ELSE s

NewCall_SharedCaches(ins) ==
    LET last == IF calls = <<>> THEN [fetches |-> <<>>, probes |-> <<>>,
                                      registryCache |-> <<>>, urlReachableCache |-> <<>>]
                ELSE calls[Len(calls)]
    IN  [tasks |-> [i \in 1..Len(ins) |-> NewTask(ins[i])],
         fetches |-> last.fetches, probes |-> last.probes,
         registryCache |-> last.registryCache, urlReachableCache |-> last.urlReachableCache,
         cacheHits |-> {},
         results |-> [state |-> IF Len(ins) = 0 THEN "fulfilled" ELSE "pending",
                      values |-> [i \in 1..Len(ins) |-> [set |-> FALSE, value |-> NoResult]]]]

\* collectCandidateEvidence, lines 61-64: the two new Maps, and Promise.all
\* over one promise per input, before the first task starts
NewCall(ins) ==
    [tasks |-> [i \in 1..Len(ins) |-> NewTask(ins[i])],
     fetches |-> <<>>, probes |-> <<>>,
     registryCache |-> <<>>, urlReachableCache |-> <<>>,
     cacheHits |-> {},
     results |-> [state |-> IF Len(ins) = 0 THEN "fulfilled" ELSE "pending",
                  values |-> [i \in 1..Len(ins) |-> [set |-> FALSE, value |-> NoResult]]]]

\* inputs.map(buildCandidateEvidence): the tasks start in input order
RECURSIVE StartAll(_, _)
StartAll(s, i) ==
    IF i > Len(s.tasks) THEN s ELSE StartAll(StartTask(s, i), i + 1)

-----------------------------------------------------------------------------
(* SpecRisk: inputs of the classifier and the filter *)

Candidate(file, name, cur, tgt) ==
    [packageFile |-> file, packageName |-> name,
     current |-> [version |-> cur], target |-> [version |-> tgt]]

\* One candidate of each risk group, under two package names
FilterPool ==
    { Candidate("package.json", name, SemVer(0, 0, 0, 0), tgt) :
        name \in {"a", "b"},
        tgt \in { Null, SemVer(0, 0, 0, 0), SemVer(0, 0, 1, 0), SemVer(0, 1, 0, 0),
                  SemVer(1, 0, 0, 0), SemVer(1, 0, 0, 1) } }

RECURSIVE SeqsUpTo(_, _)
SeqsUpTo(S, n) ==
    IF n = 0 THEN {<<>>}
    ELSE LET shorter == SeqsUpTo(S, n - 1)
         IN  shorter \cup { Append(s, x) : s \in shorter, x \in S }

RiskInputs ==
    { <<Candidate("package.json", "a", cur, tgt)>> : cur \in RawVersions, tgt \in RawVersions }
        \cup SeqsUpTo(FilterPool, MaxCandidates)

InitRisk ==
    /\ candidates \in RiskInputs
    /\ risk \in Risks
    /\ groups = <<>>
    /\ filteredCandidates = <<>>
    /\ riskPc = "ready"
    /\ IdleWindow
    /\ IdleEvidence
    /\ IdleLater

Classify ==
    /\ riskPc = "ready"
    /\ groups' = [i \in 1..Len(candidates) |->
                    classifyRiskGroup(candidates[i].current.version,
                                      candidates[i].target.version)]
    /\ riskPc' = "classified"
    /\ UNCHANGED <<candidates, risk, filteredCandidates>>
    /\ UNCHANGED <<windowVars, evVars, laterVars>>

ApplyRiskFilter ==
    /\ riskPc = "classified"
    /\ filteredCandidates' = applyRiskFilter(candidates, risk)
    /\ riskPc' = "filtered"
    /\ UNCHANGED <<candidates, risk, groups>>
    /\ UNCHANGED <<windowVars, evVars, laterVars>>

NextRisk == Classify \/ ApplyRiskFilter

SpecRisk == InitRisk /\ [][NextRisk]_vars

-----------------------------------------------------------------------------
(* Claims about the risk classifier and the risk filter (SpecRisk) *)

Classified == riskPc \in {"classified", "filtered"}

\* Both versions are valid semantic versions
BothValid(c) ==
    /\ Truthy(c.current.version) /\ Truthy(c.target.version)
    /\ parse(c.current.version).ok /\ parse(c.target.version).ok

Installed(c) == parse(c.current.version)
Target(c) == parse(c.target.version)

\* C3: for every pair of valid semantic versions with target > installed,
\* classifyRiskGroup returns prerelease when the target has a prerelease
\* component, otherwise the first of major, minor, patch in which the target
\* exceeds installed; never none and never unknown.
C3_ForwardBumpIsClassified ==
    Classified =>
        \A i \in 1..Len(candidates) :
            LET c == candidates[i] IN
            (BothValid(c) /\ compare(Target(c), Installed(c)) > 0) =>
                /\ groups[i] \in {"major", "minor", "patch", "prerelease"}
                /\ groups[i] =
                     IF Target(c).pre > 0 THEN "prerelease"
                     ELSE IF Target(c).major > Installed(c).major THEN "major"
                     ELSE IF Target(c).minor > Installed(c).minor THEN "minor"
                     ELSE "patch"

\* C4: classifyRiskGroup returns unknown whenever either version is null,
\* empty or unparseable, or installed > target; it returns none whenever both
\* versions parse and compare equal; a regression is never classified as
\* major, minor, patch or prerelease.
C4_UnknownNoneAndRegression ==
    Classified =>
        \A i \in 1..Len(candidates) :
            LET c == candidates[i] IN
            /\ ~BothValid(c) => groups[i] = "unknown"
            /\ (BothValid(c) /\ compare(Installed(c), Target(c)) > 0) =>
                   /\ groups[i] = "unknown"
                   /\ groups[i] \notin {"major", "minor", "patch", "prerelease"}
            /\ (BothValid(c) /\ compare(Installed(c), Target(c)) = 0) => groups[i] = "none"

\* A regression across a major version, with a release target, has been classified
C4_Witness ==
    /\ riskPc = "classified"
    /\ Len(candidates) = 1
    /\ BothValid(candidates[1])
    /\ Installed(candidates[1]).major > Target(candidates[1]).major
    /\ Target(candidates[1]).pre = 0
    /\ groups[1] = "unknown"

\* The groups the claim says each risk option keeps
AllowedGroups(r) ==
    CASE r = "all" -> RiskGroups
      [] r = "major-only" -> {"major"}
      [] r = "non-major" -> {"minor", "patch", "none"}
      [] r = "prerelease-only" -> {"prerelease"}
      [] r = "unknown-only" -> {"unknown"}

\* C5: applyRiskFilter keeps a candidate if and only if its risk group is
\* allowed by the risk option (all: every group; major-only: major; non-major:
\* minor, patch, none; prerelease-only: prerelease; unknown-only: unknown).
C5_KeptIffGroupAllowed ==
    riskPc = "filtered" =>
        /\ \A i \in 1..Len(candidates) :
              (groups[i] \in AllowedGroups(risk))
                  <=> (\E j \in 1..Len(filteredCandidates) :
                          filteredCandidates[j] = candidates[i])
        /\ Len(filteredCandidates) =
              Cardinality({ i \in 1..Len(candidates) : groups[i] \in AllowedGroups(risk) })

\* non-major has kept an unchanged (none) candidate and dropped a major one
C5_Witness ==
    /\ riskPc = "filtered"
    /\ risk = "non-major"
    /\ Len(candidates) = 2
    /\ groups = <<"none", "major">>
    /\ filteredCandidates = <<candidates[1]>>

RECURSIVE IsSubsequence(_, _)
IsSubsequence(s, t) ==
    IF s = <<>> THEN TRUE
    ELSE IF t = <<>> THEN FALSE
    ELSE IF Head(s) = Head(t) THEN IsSubsequence(Tail(s), Tail(t))
    ELSE IsSubsequence(s, Tail(t))

\* C6: for every risk option applyRiskFilter returns an order-preserving
\* subsequence of its input and leaves the input list and each candidate
\* unmodified; with risk = all the output equals the input.
C6_OrderPreservingSubsequence ==
    /\ [](riskPc = "filtered" =>
            /\ IsSubsequence(filteredCandidates, candidates)
            /\ risk = "all" => filteredCandidates = candidates)
    /\ [][candidates' = candidates]_vars

\* A filter other than all has dropped the middle one of three candidates
C6_Witness ==
    /\ riskPc = "filtered"
    /\ risk # "all"
    /\ Len(candidates) = 3
    /\ filteredCandidates = <<candidates[1], candidates[3]>>
    /\ candidates[1] # candidates[3]

-----------------------------------------------------------------------------
(* Spec: collectCandidateEvidence, called by collectNextUpdatesReport *)

EvState ==
    [tasks |-> tasks, fetches |-> fetches, probes |-> probes,
     registryCache |-> registryCache, urlReachableCache |-> urlReachableCache,
     cacheHits |-> cacheHits, results |-> results]

SetEvState(s) ==
    /\ tasks' = s.tasks
    /\ fetches' = s.fetches
    /\ probes' = s.probes
    /\ registryCache' = s.registryCache
    /\ urlReachableCache' = s.urlReachableCache
    /\ cacheHits' = s.cacheHits
    /\ results' = s.results

\* The (packageFile, packageName) keys in sortCandidates' order
CandidateKeys ==
    << <<"package.json", "@s/b">>, <<"package.json", "a">>,
       <<"packages/app/package.json", "a">> >>

KeyRank(c) ==
    CHOOSE k \in 1..Len(CandidateKeys) : CandidateKeys[k] = <<c.packageFile, c.packageName>>

EvidenceVersionPairs ==
    { <<SemVer(1, 0, 0, 0), SemVer(2, 0, 0, 0)>>,
      <<Null, SemVer(2, 0, 0, 0)>>,
      <<Text, SemVer(2, 0, 0, 0)>> }

EvidencePool ==
    { Candidate(CandidateKeys[k][1], CandidateKeys[k][2], vp[1], vp[2]) :
        k \in 1..Len(CandidateKeys), vp \in EvidenceVersionPairs }

\* The filtered candidate lists: sorted, one candidate per key
EvidenceCandidateLists ==
    { list \in SeqsUpTo(EvidencePool, MaxInputs) :
        \A i \in 1..Len(list), j \in 1..Len(list) :
            i < j => KeyRank(list[i]) < KeyRank(list[j]) }

PublishedVersions ==
    { SemVer(1, 0, 0, 0), SemVer(1, 1, 0, 0), SemVer(2, 0, 0, 1), SemVer(2, 0, 0, 0) }

EvidenceRepositories ==
    { NoRepository, Repository("https://gitlab.com/", "o/r"),
      Repository("git+https://github.com/", "o/r") }

RegistryResponses ==
    { RegistryResponse(type, NoRegistry) : type \in {"error", "notOk", "notJson", "notObject"} }
        \cup { RegistryResponse("object", RegistryPackage(TRUE, PublishedVersions, repo)) :
                 repo \in EvidenceRepositories }

ProbeResponses ==
    { ProbeResponse("error", 0) }
        \cup { ProbeResponse("status", status) :
                 status \in {StatusOk, StatusLimit - 1, StatusLimit, 404} }

Init ==
    /\ filteredCandidates \in EvidenceCandidateLists
    /\ candidates = <<>>
    /\ risk = "all"
    /\ groups = <<>>
    /\ riskPc = "idle"
    /\ IdleWindow
    /\ IdleLater
    /\ inputs = <<>>
    /\ tasks = <<>>
    /\ fetches = <<>>
    /\ probes = <<>>
    /\ registryCache = <<>>
    /\ urlReachableCache = <<>>
    /\ cacheHits = {}
    /\ results = [state |-> "pending", values |-> <<>>]
    /\ candidatesWithEvidence = <<>>
    /\ evPc = "ready"

\* collectNextUpdatesReport, lines 98-104, and collectCandidateEvidence up to
\* the return of Promise.all(...)
CollectCandidateEvidence ==
    /\ evPc = "ready"
    /\ LET ins == [i \in 1..Len(filteredCandidates) |->
                      EvidenceInput(filteredCandidates[i].packageName,
                                    filteredCandidates[i].current.version,
                                    filteredCandidates[i].target.version)]
           s0 == NewCall(ins)
       IN  /\ inputs' = ins
           /\ SetEvState(StartAll(s0, 1))
    /\ evPc' = "collecting"
    /\ UNCHANGED <<candidatesWithEvidence, riskVars, windowVars, laterVars>>

\* The registry answers a pending fetch; fetchRegistryPackage settles its
\* promise and the tasks awaiting it run on
RegistryResponds ==
    /\ evPc = "collecting"
    /\ \E name \in DOMAIN fetches :
         \E n \in 1..Len(fetches[name]) :
           \E response \in RegistryResponses :
             /\ fetches[name][n].state = "pending"
             /\ \E settled \in { [EvState EXCEPT
                                     !.fetches[name][n] = fetchRegistryPackage(response)] } :
                   \E drained \in { Drain(settled) } : SetEvState(drained)
    /\ UNCHANGED <<inputs, candidatesWithEvidence, evPc, riskVars, windowVars, laterVars>>

\* A probed server answers a pending HEAD request; checkUrl settles its
\* promise and the tasks awaiting it run on
ProbeResponds ==
    /\ evPc = "collecting"
    /\ \E url \in DOMAIN probes :
         \E n \in 1..Len(probes[url]) :
           \E response \in ProbeResponses :
             /\ probes[url][n].state = "pending"
             /\ \E settled \in { [EvState EXCEPT !.probes[url][n] = checkUrl(response)] } :
                   \E drained \in { Drain(settled) } : SetEvState(drained)
    /\ UNCHANGED <<inputs, candidatesWithEvidence, evPc, riskVars, windowVars, laterVars>>

\* collectNextUpdatesReport, lines 105-108
MergeEvidence ==
    /\ evPc = "collecting"
    /\ results.state = "fulfilled"
    /\ candidatesWithEvidence' =
          [index \in 1..Len(filteredCandidates) |->
              [candidate |-> filteredCandidates[index],
               versionWindow |-> results.values[index].value.versionWindow,
               evidence |-> results.values[index].value.evidence]]
    /\ evPc' = "merged"
    /\ UNCHANGED <<inputs, tasks, fetches, probes, registryCache, urlReachableCache,
                   cacheHits, results, riskVars, windowVars, laterVars>>

Next == CollectCandidateEvidence \/ RegistryResponds \/ ProbeResponds \/ MergeEvidence

Spec == Init /\ [][Next]_vars

-----------------------------------------------------------------------------
(* Claims about collectCandidateEvidence (Spec) *)

\* C1: within one call, for every order in which the network answers, at most
\* one registry fetch is issued per distinct package name and at most one
\* reachability probe per distinct URL, also when a second task asks for a key
\* whose request is still in flight or has failed.
C1_OneRequestPerKey ==
    /\ \A name \in DOMAIN fetches : Len(fetches[name]) <= 1
    /\ \A url \in DOMAIN probes : Len(probes[url]) <= 1

\* Two tasks shared a package, one task asked for a URL whose probe was in
\* flight, another for a URL whose probe had failed: each was requested once
C1_Witness ==
    /\ evPc = "merged"
    /\ { [cache |-> "registry", seen |-> "pending"],
         [cache |-> "url", seen |-> "pending"],
         [cache |-> "url", seen |-> "false"] } \subseteq cacheHits
    /\ \A name \in DOMAIN fetches : Len(fetches[name]) = 1
    /\ \A url \in DOMAIN probes : Len(probes[url]) = 1

\* ---- The result the answers of the network determine for one input

\* The registry's answer for the package, NoRegistry while there is none
AnsweredRegistry(name) ==
    IF name \in DOMAIN fetches /\ \E n \in 1..Len(fetches[name]) :
                                      fetches[name][n].state = "fulfilled"
    THEN fetches[name][CHOOSE n \in 1..Len(fetches[name]) :
                           fetches[name][n].state = "fulfilled"].registry
    ELSE NoRegistry

\* Some probe of the URL was answered with a status in [200, 400)
AnsweredReachable(url) ==
    /\ url \in DOMAIN probes
    /\ \E n \in 1..Len(probes[url]) :
          probes[url][n].state = "fulfilled" /\ probes[url][n].reachable

\* The first URL of the list that was answered reachable, or no link
FirstReachable(urls) ==
    IF \E k \in 1..Len(urls) : AnsweredReachable(urls[k])
    THEN urls[CHOOSE k \in 1..Len(urls) :
                  AnsweredReachable(urls[k]) /\ \A j \in 1..(k - 1) : ~AnsweredReachable(urls[j])]
    ELSE NoLink

ExpectedLinks(inp) ==
    LET reg == AnsweredRegistry(inp.packageName)
        repo == IF reg.ok THEN normalizeRepositoryUrl(reg.repository) ELSE ""
        both == Truthy(inp.installedVersion) /\ Truthy(inp.targetVersion)
        pairs == buildCompareTagPairs(inp.packageName,
                                      normalizeTagVersion(inp.installedVersion),
                                      normalizeTagVersion(inp.targetVersion))
    IN  [compare |->
             IF repo # "" /\ both
             THEN FirstReachable([k \in 1..Len(pairs) |-> buildCompareUrl(repo, pairs[k])])
             ELSE NoLink,
         npmDiffLink |->
             IF both
             THEN Link("npmDiff", "", "", Tag("npm", inp.packageName, inp.installedVersion),
                       Tag("npm", inp.packageName, inp.targetVersion))
             ELSE NoLink,
         releases |->
             IF repo # "" /\ AnsweredReachable(LatestUrl(repo))
             THEN ReleasesUrl(repo) ELSE NoLink,
         changelog |->
             IF repo # ""
             THEN FirstReachable([k \in 1..Len(ChangelogCandidates) |-> ChangelogUrl(repo, k)])
             ELSE NoLink]

ExpectedResult(inp) ==
    LET links == ExpectedLinks(inp)
        established == { k \in LinkKeys : IsLink(links[k]) }
    IN  [versionWindow |->
             candidateVersionWindow(AnsweredRegistry(inp.packageName),
                                    inp.installedVersion, inp.targetVersion),
         evidence |->
             IF established = {} THEN NullEvidence
             ELSE [isNull |-> FALSE, links |-> [k \in established |-> links[k]]]]

InputOf(c) == EvidenceInput(c.packageName, c.current.version, c.target.version)

\* C2: collectCandidateEvidence returns exactly one result per input, result i
\* being the one computed for input i whatever the order in which fetches and
\* probes complete, and collectNextUpdatesReport attaches result i to filtered
\* candidate i.
C2_ResultsByInputIndex ==
    /\ evPc \in {"collecting", "merged"} =>
          /\ Len(results.values) = Len(inputs)
          /\ \A i \in 1..Len(results.values) :
                results.values[i].set => results.values[i].value = ExpectedResult(inputs[i])
          /\ results.state = "fulfilled" =>
                \A i \in 1..Len(results.values) : results.values[i].set
    /\ evPc = "merged" =>
          /\ Len(candidatesWithEvidence) = Len(filteredCandidates)
          /\ \A i \in 1..Len(filteredCandidates) :
                LET expected == ExpectedResult(InputOf(filteredCandidates[i]))
                IN  /\ candidatesWithEvidence[i].candidate = filteredCandidates[i]
                    /\ candidatesWithEvidence[i].versionWindow = expected.versionWindow
                    /\ candidatesWithEvidence[i].evidence = expected.evidence

\* The second task has completed before the first, with another result than
\* the first will have
C2_Witness ==
    /\ evPc = "collecting"
    /\ Len(inputs) = 2
    /\ ~results.values[1].set
    /\ results.values[2].set
    /\ ~results.values[2].value.evidence.isNull
    /\ ~Truthy(inputs[1].installedVersion)

Done(i) == tasks[i].pc = "done"

\* The links task i established
Established(i) ==
    [compare |-> tasks[i].compare, npmDiffLink |-> tasks[i].npmDiffLink,
     releases |-> tasks[i].releases, changelog |-> tasks[i].changelog]

\* C8: in every result, evidence is null if and only if none of the four links
\* was established; when it is non-null, links holds exactly the established
\* links and no key with an empty or undefined value.
C8_EvidenceNullIffNoLink ==
    \A i \in 1..Len(tasks) :
        Done(i) =>
            LET evidence == results.values[i].value.evidence
                established == { k \in LinkKeys : IsLink(Established(i)[k]) }
            IN  /\ evidence.isNull <=> established = {}
                /\ DOMAIN evidence.links = established
                /\ \A k \in DOMAIN evidence.links :
                      /\ evidence.links[k] = Established(i)[k]
                      /\ IsLink(evidence.links[k])

\* One result has null evidence, another has releases but no changelog
C8_Witness ==
    /\ Len(tasks) = 2
    /\ Done(1) /\ Done(2)
    /\ results.values[1].value.evidence.isNull
    /\ DOMAIN results.values[2].value.evidence.links = {"npmDiffLink", "releases"}

BothPresent(inp) ==
    /\ inp.installedVersion.kind \notin {"null", "empty"}
    /\ inp.targetVersion.kind \notin {"null", "empty"}

NamesBothVersions(link, inp) ==
    /\ link.kind = "npmDiff"
    /\ link.from.name = inp.packageName /\ link.from.version = inp.installedVersion
    /\ link.to.name = inp.packageName /\ link.to.version = inp.targetVersion

\* C9: for every candidate whose installed and target versions are both
\* present, the npmDiffLink naming both versions is built before any network
\* answer, and the result's evidence is non-null and contains it whatever the
\* outcome of the registry fetch and of every probe.
C9_NpmDiffLinkAlways ==
    \A i \in 1..Len(tasks) :
        BothPresent(tasks[i].input) =>
            /\ tasks[i].pc # "init" => NamesBothVersions(tasks[i].npmDiffLink, tasks[i].input)
            /\ Done(i) =>
                  /\ ~results.values[i].value.evidence.isNull
                  /\ "npmDiffLink" \in DOMAIN results.values[i].value.evidence.links
                  /\ NamesBothVersions(results.values[i].value.evidence.links["npmDiffLink"],
                                       tasks[i].input)

\* The installed version is present but no semantic version and the registry
\* fetch failed: the evidence is the npmDiffLink alone
C9_Witness ==
    /\ Len(tasks) >= 1
    /\ Done(1)
    /\ tasks[1].input.installedVersion = Text
    /\ ~tasks[1].registry.ok
    /\ DOMAIN results.values[1].value.evidence.links = {"npmDiffLink"}

NothingPending ==
    /\ \A name \in DOMAIN fetches :
          \A n \in 1..Len(fetches[name]) : fetches[name][n].state # "pending"
    /\ \A url \in DOMAIN probes :
          \A n \in 1..Len(probes[url]) : probes[url][n].state # "pending"

\* C10: collectCandidateEvidence never rejects; a failed registry fetch or
\* probe only omits the links of the candidates that depend on that request:
\* the result of every candidate is the one its own package's registry answer
\* and its own URLs' answers determine.
C10_NeverRejectsFailuresContained ==
    /\ results.state # "rejected"
    /\ \A i \in 1..Len(tasks) :
          /\ tasks[i].pc # "rejected"
          /\ Done(i) => tasks[i].result = ExpectedResult(tasks[i].input)
    /\ (evPc = "collecting" /\ NothingPending) => results.state = "fulfilled"

\* The first package's fetch failed and the second package's candidate has
\* its releases and compare links
C10_Witness ==
    /\ Len(tasks) = 2
    /\ results.state = "fulfilled"
    /\ tasks[1].input.packageName # tasks[2].input.packageName
    /\ ~tasks[1].registry.ok
    /\ {"releases", "compare"} \subseteq DOMAIN tasks[2].result.evidence.links

-----------------------------------------------------------------------------
(* The lockfile builders: src/src/core/lockfiles/bun.ts, src/SECURITY.md
   (npm), src/src/cli/tasks/next-updates/lockfiles/yarn.ts (yarn and pnpm),
   and the selector, src/unnamed/part_000 *)

\* Strings of lockfiles and manifests are sequences of tokens: the characters
\* the code searches for ("@", "(", "+", ":", ",", quotes, " ", "/") are tokens
\* of their own, every other run of characters is one token.

\* String.prototype.indexOf and lastIndexOf, 0-based, -1 when absent
indexOf(str, tok) ==
    IF \E i \in 1..Len(str) : str[i] = tok
    THEN (CHOOSE i \in 1..Len(str) : str[i] = tok /\ \A j \in 1..(i - 1) : str[j] # tok) - 1
    ELSE -1

lastIndexOf(str, tok) ==
    IF \E i \in 1..Len(str) : str[i] = tok
    THEN (CHOOSE i \in 1..Len(str) : str[i] = tok /\ \A j \in (i + 1)..Len(str) : str[j] # tok) - 1
    ELSE -1

\* String.prototype.slice(from, to) for 0 <= from, to <= length
slice(str, from, to) == SubSeq(str, from + 1, to)

startsWith(str, prefix) ==
    Len(prefix) <= Len(str) /\ SubSeq(str, 1, Len(prefix)) = prefix

endsWith(str, suffix) ==
    Len(suffix) <= Len(str) /\ SubSeq(str, Len(str) - Len(suffix) + 1, Len(str)) = suffix

RECURSIVE trimStart(_)
trimStart(str) ==
    IF str # <<>> /\ Head(str) = " " THEN trimStart(Tail(str)) ELSE str

RECURSIVE trimEnd(_)
trimEnd(str) ==
    IF str # <<>> /\ str[Len(str)] = " " THEN trimEnd(SubSeq(str, 1, Len(str) - 1)) ELSE str

trim(str) == trimEnd(trimStart(str))

normalizeInstalledVersion_KeepsSuffix(value) == value

\* normalizeInstalledVersion, utils.ts lines 1-7
normalizeInstalledVersion(value) ==
    LET parenIndex == indexOf(value, "(")
    IN  IF parenIndex = -1 THEN value
        ELSE trim(slice(value, 0, parenIndex))

\* ---- JavaScript values, as JSON.parse and parseYaml produce them

Undefined == [t |-> "undefined"]
JsNull == [t |-> "null"]
Num == [t |-> "number"]
Str(str) == [t |-> "string", s |-> str]
Arr(items) == [t |-> "array", items |-> items]
\* An object is its entries, <<key, value>> pairs in insertion order
Obj(entries) == [t |-> "object", entries |-> entries]

\* What evaluating an expression that throws leaves behind
TypeError == [t |-> "TypeError"]

\* isRecord: typeof value === "object" && value !== null
isRecord(value) == value.t \in {"object", "array"}

IsTruthy(value) ==
    /\ value.t \notin {"undefined", "null"}
    /\ ~(value.t = "string" /\ value.s = <<>>)

\* value[key]; reading a property of undefined or null throws
Get(value, key) ==
    IF value.t \in {"undefined", "null", "TypeError"} THEN TypeError
    ELSE IF value.t = "object" /\ \E i \in 1..Len(value.entries) : value.entries[i][1] = key
    THEN value.entries[CHOOSE i \in 1..Len(value.entries) : value.entries[i][1] = key][2]
    ELSE Undefined

\* value?.[key]
GetOptional(value, key) ==
    IF value.t \in {"undefined", "null"} THEN Undefined ELSE Get(value, key)

\* ---- Files

\* A file's text: its syntax decides which parsers accept it, value is what
\* they produce, lines is the text as yarn's line parser sees it, marker
\* whether it contains "__metadata:"
Text4(syntax, value, marker, lines) ==
    [syntax |-> syntax, value |-> value, marker |-> marker, lines |-> lines]

\* fs.readFile(path, "utf8")
readFile(file) ==
    IF file.exists /\ file.readable THEN [ok |-> TRUE, raw |-> file.text]
    ELSE [ok |-> FALSE, raw |-> file.text]

JSONparse(raw) ==
    IF raw.syntax = "json" THEN [ok |-> TRUE, value |-> raw.value]
    ELSE [ok |-> FALSE, value |-> Undefined]

\* YAML is a superset of JSON
parseYaml(raw) ==
    IF raw.syntax \in {"json", "yaml"} THEN [ok |-> TRUE, value |-> raw.value]
    ELSE [ok |-> FALSE, value |-> Undefined]

\* ---- Lookups: the closures the builders return

\* () => null
NullLookup == [type |-> "null"]

\* A builder that threw has returned no lookup
NoLookup == [type |-> "threw"]

\* ---- npm: src/SECURITY.md lines 27-66

\* if (entry && typeof entry.version === "string") return normalize(...);
\* Undefined when the branch is not taken
npmEntryVersion(entry) ==
    IF IsTruthy(entry) /\ Get(entry, <<"version">>).t = "string"
    THEN Str(normalizeInstalledVersion(Get(entry, <<"version">>).s))
    ELSE Undefined

\* The lookup closure, lines 45-62
npmLookup(fn, packageName) ==
    LET key == <<"node_modules", "/">> \o packageName
        fromPackages ==
            IF fn.packages.t # "null" THEN npmEntryVersion(Get(fn.packages, key))
            ELSE Undefined
        fromDependencies ==
            IF fn.dependencies.t # "null"
            THEN npmEntryVersion(Get(fn.dependencies, packageName))
            ELSE Undefined
    IN  IF fromPackages.t # "undefined" THEN fromPackages
        ELSE IF fromDependencies.t # "undefined" THEN fromDependencies
        ELSE JsNull

createNpmInstalledVersionLookup(file) ==
    LET read == readFile(file)
        parsed == JSONparse(read.raw)
    IN  IF ~read.ok THEN NullLookup
        ELSE IF ~parsed.ok THEN NullLookup
        ELSE IF ~isRecord(parsed.value) THEN NullLookup
        ELSE [type |-> "npm",
              packages |->
                  IF isRecord(Get(parsed.value, <<"packages">>))
                  THEN Get(parsed.value, <<"packages">>) ELSE JsNull,
              dependencies |->
                  IF isRecord(Get(parsed.value, <<"dependencies">>))
                  THEN Get(parsed.value, <<"dependencies">>) ELSE JsNull]

\* ---- bun: src/src/core/lockfiles/bun.ts

\* raw.replace(bunTrailingCommaRegex, "$1")
removeTrailingCommas(raw) ==
    IF raw.syntax = "jsonTrailingCommas" THEN [raw EXCEPT !.syntax = "json"] ELSE raw

parseBunLockfile(raw) ==
    LET parsed == JSONparse(removeTrailingCommas(raw))
    IN  IF ~parsed.ok THEN JsNull
        ELSE IF ~isRecord(parsed.value) THEN JsNull
        ELSE parsed.value

extractBunVersion(entry) ==
    IF entry.t # "string" THEN JsNull
    ELSE LET atIndex == lastIndexOf(entry.s, "@")
         IN  IF atIndex <= 0 \/ atIndex = Len(entry.s) - 1 THEN JsNull
             ELSE Str(normalizeInstalledVersion(slice(entry.s, atIndex + 1, Len(entry.s))))

\* The lookup closure, lines 24-30
bunLookup(fn, packageName) ==
    LET entry == Get(fn.packages, packageName)
    IN  IF entry.t # "array" \/ Len(entry.items) = 0 THEN JsNull
        ELSE extractBunVersion(entry.items[1])

createBunInstalledVersionLookup(file) ==
    LET read == readFile(file)
        parsed == parseBunLockfile(read.raw)
    IN  IF ~read.ok THEN NullLookup
        ELSE IF ~(IsTruthy(parsed) /\ isRecord(Get(parsed, <<"packages">>))) THEN NullLookup
        ELSE [type |-> "bun", packages |-> Get(parsed, <<"packages">>)]

\* ---- pnpm: src/src/cli/tasks/next-updates/lockfiles/yarn.ts lines 244-329

\* path.sep of the platform the tool runs on
pathSep == "/"

\* path.posix.dirname of a relative path without trailing slash
dirname(p) ==
    LET slashIndex == lastIndexOf(p, "/")
    IN  IF slashIndex = -1 THEN <<".">>
        ELSE IF slashIndex = 0 THEN <<"/">>
        ELSE slice(p, 0, slashIndex)

packageFileToImporterKey_AlwaysRoot(packageFile) == <<".">>

packageFileToImporterKey(packageFile) ==
    IF packageFile = <<"package.json">> THEN <<".">>
    ELSE LET normalized == [i \in 1..Len(packageFile) |->
                               IF packageFile[i] = pathSep THEN "/" ELSE packageFile[i]]
             dir == dirname(normalized)
         IN  IF dir = <<".">> THEN <<".">> ELSE dir

getPnpmVersionEntry(entry) ==
    IF entry.t = "string" THEN Str(normalizeInstalledVersion(entry.s))
    ELSE IF IsTruthy(entry) /\ Get(entry, <<"version">>).t = "string"
    THEN Str(normalizeInstalledVersion(Get(entry, <<"version">>).s))
    ELSE JsNull

PnpmDependencyMaps ==
    << <<"dependencies">>, <<"devDependencies">>, <<"optionalDependencies">>,
       <<"peerDependencies">> >>

\* a ?? b ?? c ?? d over the four dependency maps, from map k on
RECURSIVE pnpmVersionFrom(_, _, _)
pnpmVersionFrom(importer, packageName, k) ==
    IF k > Len(PnpmDependencyMaps) THEN JsNull
    ELSE LET found == getPnpmVersionEntry(
                          GetOptional(Get(importer, PnpmDependencyMaps[k]), packageName))
         IN  IF k = Len(PnpmDependencyMaps) \/ found.t \notin {"null", "undefined"} THEN found
             ELSE pnpmVersionFrom(importer, packageName, k + 1)

getPnpmImporterVersion(importer, packageName) == pnpmVersionFrom(importer, packageName, 1)

\* The lookup closure, lines 281-288
pnpmLookup(fn, packageFile, packageName) ==
    LET importerKey == packageFileToImporterKey(packageFile)
        importer == Get(fn.importers, importerKey)
    IN  IF importer.t = "TypeError" THEN TypeError
        ELSE IF ~IsTruthy(importer) THEN JsNull
        ELSE getPnpmImporterVersion(importer, packageName)

createPnpmInstalledVersionLookup_NoStructureCheck(file) ==
    LET read == readFile(file)
        parsed == parseYaml(read.raw)
    IN  IF ~read.ok THEN NullLookup
        ELSE IF ~parsed.ok THEN NullLookup
        ELSE IF ~isRecord(parsed.value) THEN NullLookup
        ELSE [type |-> "pnpm", importers |-> Get(parsed.value, <<"importers">>)]

createPnpmInstalledVersionLookup(file) ==
    LET read == readFile(file)
        parsed == parseYaml(read.raw)
    IN  IF ~read.ok THEN NullLookup
        ELSE IF ~parsed.ok THEN NullLookup
        ELSE IF ~isRecord(parsed.value) THEN NullLookup
        ELSE IF ~isRecord(Get(parsed.value, <<"importers">>)) THEN NullLookup
        ELSE [type |-> "pnpm", importers |-> Get(parsed.value, <<"importers">>)]

\* ---- yarn: src/src/cli/tasks/next-updates/lockfiles/yarn.ts lines 1-242

DoubleQuote == "\""
SingleQuote == "'"

stripYarnQuotes(value) ==
    IF \/ startsWith(value, <<DoubleQuote>>) /\ endsWith(value, <<DoubleQuote>>)
       \/ startsWith(value, <<SingleQuote>>) /\ endsWith(value, <<SingleQuote>>)
    THEN SubSeq(value, 2, Len(value) - 1)
    ELSE value

\* descriptors with the trimmed, unquoted current appended unless it is empty
pushDescriptor(descriptors, current) ==
    IF trim(current) # <<>> THEN Append(descriptors, stripYarnQuotes(trim(current)))
    ELSE descriptors

\* The loop of splitYarnDescriptorList from character i on
RECURSIVE splitFrom(_, _, _, _, _, _)
splitFrom(content, i, current, inQuote, quoteChar, descriptors) ==
    IF i > Len(content) THEN pushDescriptor(descriptors, current)
    ELSE LET char == content[i]
         IN  IF char \in {DoubleQuote, SingleQuote} /\ (quoteChar = "" \/ char = quoteChar)
             THEN IF inQuote
                  THEN splitFrom(content, i + 1, Append(current, char), FALSE, "", descriptors)
                  ELSE splitFrom(content, i + 1, Append(current, char), TRUE, char, descriptors)
             ELSE IF char = "," /\ ~inQuote
             THEN splitFrom(content, i + 1, <<>>, inQuote, quoteChar,
                            pushDescriptor(descriptors, current))
             ELSE splitFrom(content, i + 1, Append(current, char), inQuote, quoteChar,
                            descriptors)

splitYarnDescriptorList(content) == splitFrom(content, 1, <<>>, FALSE, "", <<>>)

splitYarnKeyLine(line) ==
    LET trimmed == trim(line)
        content == trim(SubSeq(trimmed, 1, Len(trimmed) - 1))
    IN  IF ~endsWith(trimmed, <<":">>) THEN <<>>
        ELSE IF content = <<>> THEN <<>>
        ELSE splitYarnDescriptorList(content)

\* null is the empty name: no descriptor the code accepts has one
getYarnDescriptorPackageName(descriptor) ==
    LET atIndex == lastIndexOf(descriptor, "@")
    IN  IF atIndex <= 0 THEN <<>> ELSE slice(descriptor, 0, atIndex)

\* The index maps a package name to its <<descriptor, version>> entries
YarnEntry(descriptor, version) == [descriptor |-> descriptor, version |-> version]

addYarnDescriptorEntry(index, descriptor, version) ==
    LET packageName == getYarnDescriptorPackageName(descriptor)
    IN  IF packageName = <<>> THEN index
        ELSE IF packageName \in DOMAIN index
        THEN [index EXCEPT ![packageName] = Append(@, YarnEntry(descriptor, version))]
        ELSE [name \in DOMAIN index \cup {packageName} |->
                 IF name = packageName THEN <<YarnEntry(descriptor, version)>>
                 ELSE index[name]]

RECURSIVE addYarnDescriptors(_, _, _, _)
addYarnDescriptors(index, descriptors, version, k) ==
    IF k > Len(descriptors) THEN index
    ELSE addYarnDescriptors(addYarnDescriptorEntry(index, descriptors[k], version),
                            descriptors, version, k + 1)

\* null is JsNull, a version is a Str
getYarnEntryVersion(entry) ==
    IF ~isRecord(entry) THEN JsNull
    ELSE IF Get(entry, <<"version">>).t # "string" THEN JsNull
    ELSE Str(normalizeInstalledVersion(Get(entry, <<"version">>).s))

\* Object.entries of a record: an array's entries have its indices as keys
ObjectEntries(value) ==
    IF value.t = "object" THEN value.entries
    ELSE [i \in 1..Len(value.items) |-> << <<"index">>, value.items[i] >>]

RECURSIVE berryFrom(_, _, _)
berryFrom(entries, k, index) ==
    IF k > Len(entries) THEN index
    ELSE LET descriptorList == entries[k][1]
             version == getYarnEntryVersion(entries[k][2])
         IN  IF descriptorList = <<"__metadata">> THEN berryFrom(entries, k + 1, index)
             ELSE IF ~IsTruthy(version) THEN berryFrom(entries, k + 1, index)
             ELSE berryFrom(entries, k + 1,
                            addYarnDescriptors(index, splitYarnDescriptorList(descriptorList),
                                               version.s, 1))

buildYarnDescriptorIndexFromBerry(lockfile) == berryFrom(ObjectEntries(lockfile), 1, <<>>)

\* yarnClassicVersionRegex, /^version\s+["'](.+)["']/, on a trimmed line:
\* the group is greedy, so it ends before the last quote of the line
Quotes == {DoubleQuote, SingleQuote}

RECURSIVE skipSpaces(_, _)
skipSpaces(str, i) ==
    IF i <= Len(str) /\ str[i] = " " THEN skipSpaces(str, i + 1) ELSE i

yarnClassicVersionMatch(trimmed) ==
    LET open == skipSpaces(trimmed, 2)
        closers == { j \in (open + 2)..Len(trimmed) : trimmed[j] \in Quotes }
        close == CHOOSE j \in closers : \A other \in closers : other <= j
    IN  IF /\ Len(trimmed) >= 2
           /\ trimmed[1] = "version"
           /\ open > 2
           /\ open <= Len(trimmed)
           /\ trimmed[open] \in Quotes
           /\ closers # {}
        THEN [ok |-> TRUE, group |-> SubSeq(trimmed, open + 1, close - 1)]
        ELSE [ok |-> FALSE, group |-> <<>>]

RECURSIVE classicFrom(_, _, _, _)
classicFrom(lines, k, currentDescriptors, index) ==
    IF k > Len(lines) THEN index
    ELSE LET line == lines[k]
             trimmed == trim(line)
             match == yarnClassicVersionMatch(trimmed)
         IN  IF trimmed = <<>> \/ startsWith(trimmed, <<"#">>)
             THEN classicFrom(lines, k + 1, currentDescriptors, index)
             ELSE IF ~startsWith(line, <<" ">>)
             THEN classicFrom(lines, k + 1, splitYarnKeyLine(line), index)
             ELSE IF Len(currentDescriptors) = 0
             THEN classicFrom(lines, k + 1, currentDescriptors, index)
             ELSE IF ~match.ok
             THEN classicFrom(lines, k + 1, currentDescriptors, index)
             ELSE classicFrom(lines, k + 1, currentDescriptors,
                              addYarnDescriptors(index, currentDescriptors,
                                                 normalizeInstalledVersion(match.group), 1))

\* raw.split(lineBreakRegex) is the text's lines
buildYarnDescriptorIndexFromClassic(raw) == classicFrom(raw.lines, 1, <<>>, <<>>)

matchesYarnDescriptor(descriptor, packageName, currentRange) ==
    IF currentRange = <<>> THEN FALSE
    ELSE IF ~startsWith(descriptor, Append(packageName, "@")) THEN FALSE
    ELSE LET range == SubSeq(descriptor, Len(packageName) + 2, Len(descriptor))
         IN  IF range = currentRange THEN TRUE
             ELSE endsWith(range, <<":">> \o currentRange)

RECURSIVE yarnFirstMatch(_, _, _, _)
yarnFirstMatch(entries, k, packageName, currentRange) ==
    IF k > Len(entries) THEN JsNull
    ELSE IF matchesYarnDescriptor(entries[k].descriptor, packageName, currentRange)
    THEN Str(entries[k].version)
    ELSE yarnFirstMatch(entries, k + 1, packageName, currentRange)

\* The lookup closure, createYarnInstalledVersionLookupFromIndex
yarnLookup(fn, packageName, currentRange) ==
    IF currentRange = <<>> THEN JsNull
    ELSE IF packageName \notin DOMAIN fn.index THEN JsNull
    ELSE yarnFirstMatch(fn.index[packageName], 1, packageName, currentRange)

createYarnInstalledVersionLookupFromIndex(index) == [type |-> "yarn", index |-> index]

createYarnInstalledVersionLookup(file) ==
    LET read == readFile(file)
        raw == read.raw
        parsed == parseYaml(raw)
        \* berry is [isNull, index]
        berry == IF raw.marker /\ parsed.ok /\ isRecord(parsed.value)
                 THEN [isNull |-> FALSE, index |-> buildYarnDescriptorIndexFromBerry(parsed.value)]
                 ELSE [isNull |-> TRUE, index |-> <<>>]
    IN  IF ~read.ok THEN NullLookup
        ELSE IF berry.isNull
        THEN createYarnInstalledVersionLookupFromIndex(buildYarnDescriptorIndexFromClassic(raw))
        ELSE createYarnInstalledVersionLookupFromIndex(berry.index)

\* ---- Calling a lookup

\* lookup(packageFile, packageName, currentRange)
CallLookup(fn, packageFile, packageName, currentRange) ==
    IF fn.type = "npm" THEN npmLookup(fn, packageName)
    ELSE IF fn.type = "bun" THEN bunLookup(fn, packageName)
    ELSE IF fn.type = "pnpm" THEN pnpmLookup(fn, packageFile, packageName)
    ELSE IF fn.type = "yarn" THEN yarnLookup(fn, packageName, currentRange)
    ELSE JsNull

-----------------------------------------------------------------------------
(* SpecLockfile: lockfiles on disk, the builders, the selector, one lookup *)

LockfileTypes == <<"pnpm", "npm", "yarn", "bun">>

Lodash == <<"lodash">>
ScopedB == <<"@", "s", "/", "b">>
RootManifest == <<"package.json">>
AppManifest == <<"packages", "/", "app", "/", "package.json">>
PeerSuffix == <<"(", "esbuild", "@", "0.18.0", ")">>
BuildMetadata == <<"+", "sha">>

\* What a package manager installed: the manifest that declares the package,
\* the declared range and the installed version
Fact(packageFile, packageName, range, version) ==
    [packageFile |-> packageFile, packageName |-> packageName, range |-> range,
     version |-> version]

FactPool ==
    << Fact(RootManifest, Lodash, <<"^4.17.0">>, <<"4.17.21">>),
       Fact(RootManifest, ScopedB, <<"^1.0.0">>, <<"1.0.0">>),
       Fact(AppManifest, Lodash, <<"^4.17.0">>, <<"4.17.21">>),
       Fact(AppManifest, ScopedB, <<"^1.0.0">>, <<"1.0.0">>) >>

\* The installs: one or two facts, in FactPool's order
Installs ==
    { <<FactPool[i]>> : i \in 1..Len(FactPool) }
        \cup { <<FactPool[ij[1]], FactPool[ij[2]]>> :
                 ij \in { p \in (1..Len(FactPool)) \X (1..Len(FactPool)) : p[1] < p[2] } }

\* A file on disk; kind and facts are not read by the builders: they say how
\* the file was made
File(exists, readable, text, kind, facts) ==
    [exists |-> exists, readable |-> readable, text |-> text, kind |-> kind,
     facts |-> facts]

NoText == Text4("garbage", Undefined, FALSE, <<>>)
AbsentFile == File(FALSE, FALSE, NoText, "absent", <<>>)
UnreadableFile == File(TRUE, FALSE, NoText, "unreadable", <<>>)
GarbageFile ==
    File(TRUE, TRUE, Text4("garbage", Undefined, FALSE, << <<"{", "{">> >>), "garbage", <<>>)

JsonText(value) == Text4("json", value, FALSE, <<>>)
YamlText(value) == Text4("yaml", value, FALSE, <<>>)

\* Parsed, but not what the builder expects
Malformed(text) == File(TRUE, TRUE, text, "malformed", <<>>)
WellFormed(text, facts) == File(TRUE, TRUE, text, "wellFormed", facts)

\* The entries of an object with one entry per fact that satisfies keep
EntriesOf(facts, Keep(_), Key(_), Value(_)) ==
    LET kept == SelectSeq(facts, Keep)
    IN  [k \in 1..Len(kept) |-> <<Key(kept[k]), Value(kept[k])>>]

\* The first fact of each package name: what a hoisted install records
RECURSIVE Hoisted(_, _)
Hoisted(facts, seen) ==
    IF facts = <<>> THEN <<>>
    ELSE IF Head(facts).packageName \in seen THEN Hoisted(Tail(facts), seen)
    ELSE <<Head(facts)>> \o Hoisted(Tail(facts), seen \cup {Head(facts).packageName})

\* ---- pnpm-lock.yaml, as in tests/index.test.ts lines 105-113

PnpmImporterKeys == << <<".">>, <<"packages", "/", "app">> >>
ManifestOfImporter(key) == IF key = <<".">> THEN RootManifest ELSE AppManifest

SynthesizePnpm(facts, map, form, peer) ==
    LET Version(f) == IF peer THEN f.version \o PeerSuffix ELSE f.version
        EntryOf(f) == IF form = "string" THEN Str(Version(f))
                      ELSE Obj(<< << <<"version">>, Str(Version(f)) >> >>)
        Importer(key) ==
            LET KeepFact(f) == f.packageFile = ManifestOfImporter(key)
                NameOf(f) == f.packageName
            IN  Obj(<< <<map, Obj(EntriesOf(facts, KeepFact, NameOf, EntryOf))>> >>)
        present == SelectSeq(PnpmImporterKeys,
                             LAMBDA key : \E i \in 1..Len(facts) :
                                              facts[i].packageFile = ManifestOfImporter(key))
    IN  WellFormed(YamlText(Obj(<< << <<"lockfileVersion">>, Str(<<"9.0">>) >>,
                                   << <<"importers">>,
                                      Obj([k \in 1..Len(present) |->
                                              <<present[k], Importer(present[k])>>]) >> >>)),
                   facts)

PnpmMalformed ==
    { Malformed(YamlText(value)) :
        value \in { JsNull, Str(<<"importers">>), Obj(<<>>),
                    Obj(<< << <<"importers">>, JsNull >> >>),
                    Obj(<< << <<"importers">>, Str(<<"4.17.21">>) >> >>),
                    Obj(<< << <<"importers">>, Arr(<<>>) >> >>),
                    Obj(<< << <<"importers">>,
                              Obj(<< << <<".">>, JsNull >>,
                                     << <<"packages", "/", "app">>, Str(<<"4.17.21">>) >> >>) >> >>),
                    Obj(<< << <<"importers">>,
                              Obj(<< << <<".">>,
                                        Obj(<< << <<"dependencies">>,
                                                  Obj(<< <<Lodash, Num>>,
                                                         <<ScopedB, Obj(<< << <<"version">>, Num >> >>)>> >>)
                                               >> >>) >> >>) >> >>) } }

PnpmFiles ==
    {AbsentFile, UnreadableFile, GarbageFile} \cup PnpmMalformed
        \cup { SynthesizePnpm(facts, map, form, peer) :
                 facts \in Installs,
                 map \in { <<"dependencies">>, <<"peerDependencies">> },
                 form \in {"string", "object"}, peer \in BOOLEAN }

\* ---- package-lock.json, as in tests/index.test.ts lines 86-93

SynthesizeNpm(facts, sections) ==
    LET PackagesKey(f) == <<"node_modules", "/">> \o f.packageName
        NameOf(f) == f.packageName
        EntryOf(f) == Obj(<< << <<"version">>, Str(f.version) >> >>)
        All(f) == TRUE
        hoisted == Hoisted(facts, {})
        packages == << << <<"packages">>, Obj(EntriesOf(hoisted, All, PackagesKey, EntryOf)) >> >>
        dependencies ==
            << << <<"dependencies">>, Obj(EntriesOf(hoisted, All, NameOf, EntryOf)) >> >>
    IN  WellFormed(JsonText(Obj((IF "packages" \in sections THEN packages ELSE <<>>)
                                   \o (IF "dependencies" \in sections THEN dependencies
                                       ELSE <<>>))),
                   hoisted)

NpmMalformed ==
    { Malformed(JsonText(value)) :
        value \in { JsNull, Num, Arr(<<>>), Obj(<<>>),
                    Obj(<< << <<"packages">>, Str(<<"4.17.21">>) >>,
                           << <<"dependencies">>, JsNull >> >>),
                    Obj(<< << <<"packages">>,
                              Obj(<< << <<"node_modules", "/">> \o Lodash, JsNull >>,
                                     << <<"node_modules", "/">> \o ScopedB,
                                        Obj(<< << <<"version">>, Num >> >>) >> >>) >>,
                           << <<"dependencies">>,
                              Obj(<< <<Lodash, Str(<<"4.17.21">>)>>, <<ScopedB, Obj(<<>>)>> >>) >> >>) } }

NpmFiles ==
    {AbsentFile, UnreadableFile, GarbageFile} \cup NpmMalformed
        \cup { SynthesizeNpm(facts, sections) :
                 facts \in Installs,
                 sections \in { {"packages"}, {"dependencies"}, {"packages", "dependencies"} } }

\* ---- yarn.lock: classic (line-oriented) and berry (YAML with __metadata)

\* A descriptor, quoted when its name is scoped
Descriptor(name, protocol, range) == Append(name, "@") \o protocol \o range

ClassicKey(descriptors) ==
    LET Quoted(d) == IF Head(d) = "@" THEN <<DoubleQuote>> \o d \o <<DoubleQuote>> ELSE d
    IN  IF Len(descriptors) = 1 THEN Quoted(descriptors[1])
        ELSE Quoted(descriptors[1]) \o <<",", " ">> \o Quoted(descriptors[2])

\* The descriptors of one block: with multi, an older range of the same
\* package resolves to the same version and is listed first
BlockDescriptors(f, protocol, multi) ==
    IF multi
    THEN << Descriptor(f.packageName, protocol, <<"~0.0.1">>),
            Descriptor(f.packageName, protocol, f.range) >>
    ELSE << Descriptor(f.packageName, protocol, f.range) >>

RECURSIVE ClassicLines(_, _)
ClassicLines(facts, multi) ==
    IF facts = <<>> THEN <<>>
    ELSE << ClassicKey(BlockDescriptors(Head(facts), <<>>, multi)) \o <<":">>,
            <<" ", " ", "version", " ", DoubleQuote>> \o Head(facts).version \o <<DoubleQuote>>,
            <<" ", " ", "resolved", " ", DoubleQuote, "https", ":", "//registry", DoubleQuote>>,
            <<>> >> \o ClassicLines(Tail(facts), multi)

SynthesizeYarnClassic(facts, multi, marker) ==
    WellFormed(Text4("classic", Undefined, marker,
                     << <<"#", " ", "yarn lockfile v1">>, <<>> >>
                         \o ClassicLines(Hoisted(facts, {}), multi)),
               Hoisted(facts, {}))

RECURSIVE BerryLines(_, _)
BerryLines(facts, multi) ==
    IF facts = <<>> THEN <<>>
    ELSE << <<DoubleQuote>> \o ClassicKey(BlockDescriptors(Head(facts), <<"npm", ":">>, multi))
                \o <<DoubleQuote, ":">>,
            <<" ", " ", "version", ":", " ">> \o Head(facts).version,
            <<>> >> \o BerryLines(Tail(facts), multi)

SynthesizeYarnBerry(facts, multi) ==
    LET hoisted == Hoisted(facts, {})
        All(f) == TRUE
        KeyOf(f) ==
            LET ds == BlockDescriptors(f, <<"npm", ":">>, multi)
            IN  IF Len(ds) = 1 THEN ds[1] ELSE ds[1] \o <<",", " ">> \o ds[2]
        EntryOf(f) == Obj(<< << <<"version">>, Str(f.version) >>,
                             << <<"resolution">>, Str(Descriptor(f.packageName, <<"npm", ":">>,
                                                                  f.version)) >> >>)
    IN  WellFormed(Text4("yaml",
                         Obj(<< << <<"__metadata">>, Obj(<< << <<"version">>, Num >> >>) >> >>
                                \o EntriesOf(hoisted, All, KeyOf, EntryOf)),
                         TRUE,
                         << <<"__metadata", ":">>, <<" ", " ", "version", ":", " ", "8">>, <<>> >>
                             \o BerryLines(hoisted, multi)),
                   hoisted)

YarnMalformed ==
    { \* a key line without its colon, a version line without quotes
      Malformed(Text4("classic", Undefined, FALSE,
                      << Descriptor(Lodash, <<>>, <<"^4.17.0">>),
                         <<" ", " ", "version", " ", DoubleQuote, "4.17.21", DoubleQuote>>,
                         Descriptor(ScopedB, <<>>, <<"^1.0.0">>) \o <<":">>,
                         <<" ", " ", "version", " ", "1.0.0">>,
                         <<" ", " ", "version", DoubleQuote, "1.0.0", DoubleQuote>> >>)),
      \* a version line before any key line, a key that is only a colon
      Malformed(Text4("classic", Undefined, FALSE,
                      << <<" ", " ", "version", " ", DoubleQuote, "4.17.21", DoubleQuote>>,
                         <<":">>,
                         <<" ", " ", "version", " ", DoubleQuote, "4.17.21", DoubleQuote>>,
                         <<"lodash", ":">>,
                         <<" ", " ", "version", " ", DoubleQuote, "4.17.21", DoubleQuote>> >>)),
      \* berry entries that are no records or have no string version
      Malformed(Text4("yaml",
                      Obj(<< << <<"__metadata">>, Obj(<<>>) >>,
                             << Descriptor(Lodash, <<"npm", ":">>, <<"^4.17.0">>),
                                Str(<<"4.17.21">>) >>,
                             << Descriptor(ScopedB, <<"npm", ":">>, <<"^1.0.0">>),
                                Obj(<< << <<"version">>, Num >> >>) >> >>),
                      TRUE, << <<"__metadata", ":">> >>)),
      \* berry marker, but the document is a list or a scalar
      Malformed(Text4("yaml", Arr(<< Str(<<"__metadata", ":">>) >>), TRUE,
                      << <<"-", " ", "__metadata", ":">> >>)),
      Malformed(Text4("yaml", Str(<<"__metadata", ":">>), TRUE, << <<"__metadata", ":">> >>)) }

YarnFiles ==
    {AbsentFile, UnreadableFile, GarbageFile} \cup YarnMalformed
        \cup { SynthesizeYarnClassic(facts, multi, marker) :
                 facts \in Installs, multi \in BOOLEAN, marker \in BOOLEAN }
        \cup { SynthesizeYarnBerry(facts, multi) : facts \in Installs, multi \in BOOLEAN }

\* ---- bun.lock

SynthesizeBun(facts, metadata, trailingCommas) ==
    LET hoisted == Hoisted(facts, {})
        All(f) == TRUE
        NameOf(f) == f.packageName
        EntryOf(f) ==
            Arr(<< Str(Append(f.packageName, "@") \o f.version
                          \o (IF metadata THEN BuildMetadata ELSE <<>>)),
                   Str(<<>>), Obj(<<>>), Str(<<"sha512-x">>) >>)
    IN  File(TRUE, TRUE,
             Text4(IF trailingCommas THEN "jsonTrailingCommas" ELSE "json",
                   Obj(<< << <<"lockfileVersion">>, Num >>,
                          << <<"packages">>, Obj(EntriesOf(hoisted, All, NameOf, EntryOf)) >> >>),
                   FALSE, <<>>),
             IF metadata THEN "wellFormedWithMetadata" ELSE "wellFormed",
             hoisted)

BunMalformed ==
    { Malformed(JsonText(value)) :
        value \in { JsNull, Num, Obj(<<>>),
                    Obj(<< << <<"packages">>, Str(<<"lodash", "@", "4.17.21">>) >> >>),
                    Obj(<< << <<"packages">>,
                              Obj(<< <<Lodash, Str(<<"lodash", "@", "4.17.21">>)>>,
                                     <<ScopedB, Arr(<<>>)>> >>) >> >>),
                    Obj(<< << <<"packages">>,
                              Obj(<< <<Lodash, Arr(<<Num>>)>>,
                                     <<ScopedB, Arr(<<Str(<<"@", "s">>)>>)>> >>) >> >>),
                    Obj(<< << <<"packages">>,
                              Obj(<< <<Lodash, Arr(<<Str(<<"lodash">>)>>)>>,
                                     <<ScopedB, Arr(<<Str(Append(ScopedB, "@"))>>)>> >>) >> >>) } }

BunFiles ==
    {AbsentFile, UnreadableFile, GarbageFile} \cup BunMalformed
        \cup { SynthesizeBun(facts, metadata, trailingCommas) :
                 facts \in Installs, metadata \in BOOLEAN, trailingCommas \in BOOLEAN }

\* ---- The file systems and the queries

FilesOf(type) ==
    IF type = "pnpm" THEN PnpmFiles
    ELSE IF type = "npm" THEN NpmFiles
    ELSE IF type = "yarn" THEN YarnFiles
    ELSE BunFiles

\* A well-formed lockfile of each type that records lodash 4.17.21
DefaultFile(type) ==
    LET facts == <<FactPool[1]>>
    IN  IF type = "pnpm" THEN SynthesizePnpm(facts, <<"dependencies">>, "string", FALSE)
        ELSE IF type = "npm" THEN SynthesizeNpm(facts, {"packages"})
        ELSE IF type = "yarn" THEN SynthesizeYarnClassic(facts, FALSE, FALSE)
        ELSE SynthesizeBun(facts, FALSE, FALSE)

TypeSet == { LockfileTypes[k] : k \in 1..Len(LockfileTypes) }

\* One lockfile is any file of its type; each other one is absent or the
\* default
OtherFile(type, choice) ==
    IF choice = "absent" THEN AbsentFile ELSE DefaultFile(type)

LockfileSystems ==
    UNION { { [t \in TypeSet |-> IF t = subject THEN file ELSE OtherFile(t, others[t])] :
                file \in FilesOf(subject),
                others \in [TypeSet -> {"absent", "default"}] } :
            subject \in TypeSet }

QueryFiles == {RootManifest, AppManifest}
QueryNames == {Lodash, ScopedB}
QueryRanges == { <<>>, <<"^4.17.0">>, <<"^1.0.0">> }

\* findLockfile, part_000 lines 32-51: the first type whose file exists
RECURSIVE findLockfileFrom(_, _)
findLockfileFrom(files, k) ==
    IF k > Len(LockfileTypes) THEN "none"
    ELSE IF files[LockfileTypes[k]].exists THEN LockfileTypes[k]
    ELSE findLockfileFrom(files, k + 1)

findLockfile_FirstWellFormed(files) ==
    IF \E k \in 1..Len(LockfileTypes) : files[LockfileTypes[k]].kind = "wellFormed"
    THEN LockfileTypes[CHOOSE k \in 1..Len(LockfileTypes) :
                           /\ files[LockfileTypes[k]].kind = "wellFormed"
                           /\ \A j \in 1..(k - 1) :
                                 files[LockfileTypes[j]].kind # "wellFormed"]
    ELSE findLockfileFrom(files, 1)

findLockfile_ReverseOrder(files) ==
    IF \E k \in 1..Len(LockfileTypes) : files[LockfileTypes[k]].exists
    THEN LockfileTypes[CHOOSE k \in 1..Len(LockfileTypes) :
                           /\ files[LockfileTypes[k]].exists
                           /\ \A j \in (k + 1)..Len(LockfileTypes) :
                                 ~files[LockfileTypes[j]].exists]
    ELSE "none"

findLockfile(files) == findLockfileFrom(files, 1)

\* The builder of a lockfile type
BuilderOf(type, file) ==
    IF type = "pnpm" THEN createPnpmInstalledVersionLookup(file)
    ELSE IF type = "npm" THEN createNpmInstalledVersionLookup(file)
    ELSE IF type = "yarn" THEN createYarnInstalledVersionLookup(file)
    ELSE createBunInstalledVersionLookup(file)

\* createInstalledVersionLookup, part_000 lines 12-30
createInstalledVersionLookup(files) ==
    LET lockfile == findLockfile(files)
    IN  IF lockfile = "pnpm" THEN createPnpmInstalledVersionLookup(files["pnpm"])
        ELSE IF lockfile = "npm" THEN createNpmInstalledVersionLookup(files["npm"])
        ELSE IF lockfile = "yarn" THEN createYarnInstalledVersionLookup(files["yarn"])
        ELSE IF lockfile = "bun" THEN createBunInstalledVersionLookup(files["bun"])
        ELSE NullLookup

InitLockfile ==
    /\ lockfiles \in LockfileSystems
    /\ lookupFn = [type |-> "none"]
    /\ lookupBuilder = "none"
    /\ lookupArgs = <<>>
    /\ lookupResult = Undefined
    /\ lockPc = "ready"
    /\ IdleRisk
    /\ IdleWindow
    /\ IdleEvidence
    /\ IdleReport
    /\ IdleCalls

Built(fn, builder) ==
    /\ lookupFn' = fn
    /\ lookupBuilder' = builder
    /\ lockPc' = "built"
    /\ UNCHANGED <<lockfiles, lookupArgs, lookupResult>>
    /\ UNCHANGED <<riskVars, windowVars, evVars, reportVars, callVars>>

CreateInstalledVersionLookup ==
    /\ lockPc = "ready"
    /\ Built(createInstalledVersionLookup(lockfiles), "selector")

CreatePnpmInstalledVersionLookup ==
    /\ lockPc = "ready"
    /\ Built(createPnpmInstalledVersionLookup(lockfiles["pnpm"]), "pnpm")

CreateNpmInstalledVersionLookup ==
    /\ lockPc = "ready"
    /\ Built(createNpmInstalledVersionLookup(lockfiles["npm"]), "npm")

CreateYarnInstalledVersionLookup ==
    /\ lockPc = "ready"
    /\ Built(createYarnInstalledVersionLookup(lockfiles["yarn"]), "yarn")

CreateBunInstalledVersionLookup ==
    /\ lockPc = "ready"
    /\ Built(createBunInstalledVersionLookup(lockfiles["bun"]), "bun")

\* One call lookup(packageFile, packageName, currentRange) of the lookup built
CallInstalledVersionLookup ==
    /\ lockPc = "built"
    /\ lookupFn.type # "threw"
    /\ \E packageFile \in QueryFiles, packageName \in QueryNames, currentRange \in QueryRanges :
          /\ lookupArgs' = <<packageFile, packageName, currentRange>>
          /\ lookupResult' = CallLookup(lookupFn, packageFile, packageName, currentRange)
    /\ lockPc' = "called"
    /\ UNCHANGED <<lockfiles, lookupFn, lookupBuilder>>
    /\ UNCHANGED <<riskVars, windowVars, evVars, reportVars, callVars>>

NextLockfile ==
    \/ CreateInstalledVersionLookup
    \/ CreatePnpmInstalledVersionLookup
    \/ CreateNpmInstalledVersionLookup
    \/ CreateYarnInstalledVersionLookup
    \/ CreateBunInstalledVersionLookup
    \/ CallInstalledVersionLookup

SpecLockfile == InitLockfile /\ [][NextLockfile]_vars

-----------------------------------------------------------------------------
(* Claims about the lockfile builders and the selector (SpecLockfile) *)

\* The file a directly called builder read
BuilderFile == lockfiles[lookupBuilder]
DirectBuilder == lookupBuilder \in TypeSet
Called == lockPc = "called"
QueriedFile == lookupArgs[1]
QueriedName == lookupArgs[2]
QueriedRange == lookupArgs[3]

\* The facts the file records for the queried manifest and package
RecordedFacts(file) ==
    { k \in 1..Len(file.facts) :
        /\ file.facts[k].packageFile = QueriedFile
        /\ file.facts[k].packageName = QueriedName }

\* C11: each of the four builders, given a lockfile that cannot be read,
\* cannot be parsed or has not the expected structure, returns a lookup (it
\* does not throw) that returns null for every query; no lookup call of any
\* lookup ever throws.
C11_MalformedLockfileYieldsNull ==
    /\ lookupFn.type # "threw"
    /\ Called => lookupResult.t \in {"null", "string"}
    /\ (DirectBuilder /\ BuilderFile.kind \in {"absent", "unreadable", "garbage", "malformed"}) =>
          /\ lockPc \in {"built", "called"} => lookupFn.type \in {"null"} \cup TypeSet
          /\ Called => lookupResult = JsNull

\* The pnpm builder accepted the document (importers is an object), but what
\* the importers hold is not what it expects: the lookup answered null
C11_Witness ==
    /\ Called
    /\ lookupBuilder = "pnpm"
    /\ BuilderFile.kind = "malformed"
    /\ lookupFn.type = "pnpm"
    /\ lookupResult = JsNull

\* The lockfile files in the claimed probe order
ProbeOrder == <<"pnpm", "npm", "yarn", "bun">>

\* C12: createInstalledVersionLookup probes pnpm-lock.yaml, package-lock.json,
\* yarn.lock and bun.lock in that order and delegates to the builder of the
\* first one that exists, whichever others exist; when none exists the lookup
\* yields null for every query.
C12_FirstExistingLockfileWins ==
    lookupBuilder = "selector" =>
        LET existing == { k \in 1..Len(ProbeOrder) : lockfiles[ProbeOrder[k]].exists }
            first == CHOOSE k \in existing : \A other \in existing : k <= other
        IN  IF existing = {}
            THEN lookupFn = NullLookup /\ (Called => lookupResult = JsNull)
            ELSE lookupFn = BuilderOf(ProbeOrder[first], lockfiles[ProbeOrder[first]])

\* No pnpm lockfile; an npm and a yarn lockfile exist: npm's builder answered
C12_Witness ==
    /\ Called
    /\ lookupBuilder = "selector"
    /\ ~lockfiles["pnpm"].exists
    /\ lockfiles["npm"].exists /\ lockfiles["yarn"].exists
    /\ lookupFn.type = "npm"
    /\ lookupResult.t = "string"

\* C13 as stated: for each format, a well-formed lockfile that records X at V
\* for the queried manifest makes lookup(packageFile, X, r) return exactly V
\* (peer suffix removed) for every declared range r.
C13_RoundTripAnyRange ==
    (Called /\ DirectBuilder /\ BuilderFile.kind = "wellFormed" /\ QueriedRange # <<>>) =>
        \A k \in RecordedFacts(BuilderFile) :
            lookupResult = Str(BuilderFile.facts[k].version)

\* C13, amended: for pnpm, npm and bun the lookup returns exactly V (peer
\* suffix removed) for every range r; for yarn it returns V when r is the
\* range the lockfile records for X and null when r is empty or a range no
\* descriptor of X has.
C13_RoundTripYarnByRange ==
    (Called /\ DirectBuilder /\ BuilderFile.kind = "wellFormed") =>
        \A k \in RecordedFacts(BuilderFile) :
            IF lookupBuilder # "yarn" \/ QueriedRange = BuilderFile.facts[k].range
            THEN lookupResult = Str(BuilderFile.facts[k].version)
            ELSE lookupResult = JsNull

\* A yarn lockfile with the berry marker, queried with the recorded range
C13_Witness ==
    /\ Called
    /\ lookupBuilder = "yarn"
    /\ BuilderFile.kind = "wellFormed"
    /\ BuilderFile.text.marker
    /\ BuilderFile.text.syntax = "yaml"
    /\ RecordedFacts(BuilderFile) # {}
    /\ QueriedRange = <<"^4.17.0">>
    /\ lookupResult = Str(<<"4.17.21">>)

\* C14: the pnpm lookup resolves package.json through importer '.' and
\* <dir>/package.json through importer '<dir>': a package recorded under one
\* importer only is found (peer suffix stripped) with that importer's manifest
\* and yields null with any other manifest.
C14_PnpmImporterResolution ==
    (Called /\ lookupBuilder = "pnpm" /\ BuilderFile.kind = "wellFormed") =>
        IF RecordedFacts(BuilderFile) = {}
        THEN lookupResult = JsNull
        ELSE \A k \in RecordedFacts(BuilderFile) :
                lookupResult = Str(BuilderFile.facts[k].version)

\* lodash is recorded under '.' only and @s/b under 'packages/app' only: the
\* query for @s/b with packages/app/package.json found it
C14_Witness ==
    /\ Called
    /\ lookupBuilder = "pnpm"
    /\ BuilderFile.kind = "wellFormed"
    /\ BuilderFile.facts = <<FactPool[1], FactPool[4]>>
    /\ QueriedFile = AppManifest
    /\ QueriedName = ScopedB
    /\ lookupResult = Str(<<"1.0.0">>)

\* C15: for a bun entry whose first element is <name>@<version>+<metadata>
\* the lookup returns <version> without the +<metadata> suffix.
C15_BunStripsBuildMetadata ==
    (Called /\ lookupBuilder = "bun" /\ BuilderFile.kind = "wellFormedWithMetadata") =>
        \A k \in RecordedFacts(BuilderFile) :
            lookupResult = Str(BuilderFile.facts[k].version)

-----------------------------------------------------------------------------
(* The report run: src/unnamed/part_003 and its collaborators.             *)
(* Paths, package names and ranges are token sequences, as in the lockfile *)
(* section; manifests are files whose JSON text holds a JavaScript value.  *)

\* ---- Workspace detection: src/src/infra/fs/workspaces.ts

\* value.filter((entry) => typeof entry === "string")
filterStrings(items) == SelectSeq(items, LAMBDA entry : entry.t = "string")

parseWorkspacesValue(value) ==
    IF value.t = "array" THEN filterStrings(value.items)
    ELSE IF value.t = "object" /\ Get(value, <<"packages">>).t = "array"
        THEN filterStrings(Get(value, <<"packages">>).items)
    ELSE <<>>

\* null when the file cannot be read or parsed or holds no object
readPnpmWorkspace(file) ==
    LET read == readFile(file)
        parsed == parseYaml(read.raw)
    IN  IF read.ok /\ parsed.ok /\ isRecord(parsed.value) THEN parsed.value ELSE JsNull

readRootPackageJson_NoObjectCheck(file) ==
    LET read == readFile(file)
        parsed == JSONparse(read.raw)
    IN  IF read.ok /\ parsed.ok /\ parsed.value # JsNull THEN parsed.value ELSE JsNull

readRootPackageJson(file) ==
    LET read == readFile(file)
        parsed == JSONparse(read.raw)
    IN  IF read.ok /\ parsed.ok /\ isRecord(parsed.value) THEN parsed.value ELSE JsNull

\* The patterns as a set: Array.from(new Set(...)).sort() is the sorted
\* array of this set
detectWorkspacePatterns(files, pkg) ==
    LET packageJson == IF pkg = JsNull
                       THEN readRootPackageJson(files.manifests[<<"package.json">>])
                       ELSE pkg
        workspaces == GetOptional(packageJson, <<"workspaces">>)
        fromRoot == IF IsTruthy(workspaces) THEN parseWorkspacesValue(workspaces) ELSE <<>>
        pnpmWorkspace == readPnpmWorkspace(files.workspaceYaml)
        packages == GetOptional(pnpmWorkspace, <<"packages">>)
        fromPnpm == IF IsTruthy(packages) THEN parseWorkspacesValue(packages) ELSE <<>>
        patterns == fromRoot \o fromPnpm
    IN  { patterns[i].s : i \in { k \in 1..Len(patterns) : Len(patterns[k].s) > 0 } }

hasWorkspaceConfig(files, pkg) == Cardinality(detectWorkspacePatterns(files, pkg)) > 0

\* ---- Scope: src/unnamed/part_003 lines 147-178

\* The manifest, or null when the run throws
readRootPackageJsonOrThrow(files) == readRootPackageJson(files.manifests[<<"package.json">>])

resolveScopeEffective_AlwaysRequested(scopeRequested, workspacesAvailable) ==
    scopeRequested

resolveScopeEffective(scopeRequested, workspacesAvailable) ==
    IF workspacesAvailable \/ scopeRequested = "root" THEN scopeRequested ELSE "root"

\* ---- The suggestion engine's result: src/src/cli/tasks/next-updates/ncu/normalize.ts

\* What a function that throws returns
Thrown == [t |-> "thrown"]

looksLikeWorkspaces(entries) ==
    \E i \in 1..Len(entries) : endsWith(entries[i][1], <<"package.json">>)

coerceFlat(entries) ==
    IF \E i \in 1..Len(entries) : entries[i][2].t # "string" THEN Thrown
    ELSE Obj(entries)

coerceWorkspaces(entries) ==
    IF \E i \in 1..Len(entries) :
          \/ ~isRecord(entries[i][2])
          \/ coerceFlat(ObjectEntries(entries[i][2])) = Thrown
    THEN Thrown
    ELSE Obj([i \in 1..Len(entries) |->
                 <<entries[i][1], coerceFlat(ObjectEntries(entries[i][2]))>>])

coerceNcuUpgraded(result) ==
    IF result = Undefined THEN Undefined
    ELSE IF ~isRecord(result) THEN Thrown
    ELSE LET entries == ObjectEntries(result)
         IN  IF Len(entries) = 0 THEN Obj(<<>>)
             ELSE IF looksLikeWorkspaces(entries) THEN coerceWorkspaces(entries)
             ELSE coerceFlat(entries)

isWorkspacesResult(result) ==
    /\ isRecord(result)
    /\ \E i \in 1..Len(ObjectEntries(result)) : isRecord(ObjectEntries(result)[i][2])

\* filterResults, called with <<packageName, metadata.upgradedVersion>>: a
\* version that is no string (kind "null") is not recorded
RECURSIVE filterResultsFrom(_, _)
filterResultsFrom(targetVersions, callbacks) ==
    IF callbacks = <<>> THEN targetVersions
    ELSE LET packageName == Head(callbacks)[1]
             upgradedVersion == Head(callbacks)[2]
         IN  filterResultsFrom(IF upgradedVersion.kind # "null"
                               THEN [name \in DOMAIN targetVersions \cup {packageName} |->
                                        IF name = packageName THEN upgradedVersion
                                        ELSE targetVersions[name]]
                               ELSE targetVersions,
                               Tail(callbacks))

collectTargetVersions_FirstWins(resolved) ==
    filterResultsFrom(<<>>, [k \in 1..Len(resolved) |-> resolved[Len(resolved) + 1 - k]])

\* createTargetVersionCollector: the map the filterResults callback has
\* filled once the engine has made its callbacks, in order
collectTargetVersions(resolved) == filterResultsFrom(<<>>, resolved)

\* ---- The Candidate Assembler: src/src/cli/tasks/next-updates/candidates/build.ts

\* Throws (Thrown) when the file cannot be read or parsed or holds no object
readPackageJson(file) ==
    LET read == readFile(file)
        parsed == JSONparse(read.raw)
    IN  IF read.ok /\ parsed.ok /\ isRecord(parsed.value) THEN parsed.value ELSE Thrown

\* The file at path.resolve(cwd, packageFile)
ManifestAt(files, packageFile) ==
    IF packageFile \in DOMAIN files.manifests THEN files.manifests[packageFile] ELSE AbsentFile

getDependencyTypeAndCurrentRange_DevFirst(packageJson, packageName) ==
    LET fromDeps == GetOptional(Get(packageJson, <<"dependencies">>), packageName)
        fromDevDeps == GetOptional(Get(packageJson, <<"devDependencies">>), packageName)
    IN  IF fromDevDeps.t = "string"
        THEN [dependencyType |-> "devDependencies", currentRange |-> fromDevDeps.s]
        ELSE IF fromDeps.t = "string"
        THEN [dependencyType |-> "dependencies", currentRange |-> fromDeps.s]
        ELSE [dependencyType |-> "unknown", currentRange |-> <<>>]

getDependencyTypeAndCurrentRange(packageJson, packageName) ==
    LET fromDeps == GetOptional(Get(packageJson, <<"dependencies">>), packageName)
        fromDevDeps == GetOptional(Get(packageJson, <<"devDependencies">>), packageName)
    IN  IF fromDeps.t = "string"
        THEN [dependencyType |-> "dependencies", currentRange |-> fromDeps.s]
        ELSE IF fromDevDeps.t = "string"
        THEN [dependencyType |-> "devDependencies", currentRange |-> fromDevDeps.s]
        ELSE [dependencyType |-> "unknown", currentRange |-> <<>>]

\* A package name as the evidence collector's model writes it
JoinName(packageName) ==
    IF packageName = ScopedB THEN "@s/b"
    ELSE IF packageName = Lodash THEN "lodash"
    ELSE "other"

\* An installed version as the version records of this module write it
VersionRecord(value) ==
    IF value.t # "string" THEN Null
    ELSE IF value.s = <<"1.0.0">> THEN SemVer(1, 0, 0, 0)
    ELSE IF value.s = <<"4.17.21">> THEN SemVer(4, 17, 21, 0)
    ELSE IF value.s = <<>> THEN Empty
    ELSE Text

\* targetVersions.get(packageName) ?? null
targetVersionOf(targetVersions, packageName) ==
    IF packageName \in DOMAIN targetVersions THEN targetVersions[packageName] ELSE Null

\* The candidate of one entry of the suggestion mapping
BaseCandidate(packageFile, packageJson, entry, installedVersionLookup, targetVersions) ==
    LET packageName == entry[1]
        declared == getDependencyTypeAndCurrentRange(packageJson, packageName)
        installed == CallLookup(installedVersionLookup, packageFile, packageName,
                                declared.currentRange)
    IN  [packageFile |-> packageFile,
         dependencyType |-> declared.dependencyType,
         packageName |-> JoinName(packageName),
         current |-> [range |-> declared.currentRange, version |-> VersionRecord(installed)],
         target |-> [range |-> entry[2].s,
                     version |-> targetVersionOf(targetVersions, packageName)]]

\* What buildCandidates settles with: the candidates, or Thrown; reads are
\* the manifests it read, in order
Assembled(list, reads) == [t |-> "candidates", list |-> list, reads |-> reads]
AssemblyThrown(reads) == [t |-> "thrown", list |-> <<>>, reads |-> reads]

buildCandidatesFromRoot(files, upgraded, installedVersionLookup, targetVersions) ==
    LET packageFile == <<"package.json">>
        packageJson == readPackageJson(ManifestAt(files, packageFile))
        entries == ObjectEntries(upgraded)
    IN  IF packageJson = Thrown THEN AssemblyThrown(<<packageFile>>)
        ELSE Assembled([i \in 1..Len(entries) |->
                           BaseCandidate(packageFile, packageJson, entries[i],
                                         installedVersionLookup, targetVersions)],
                       <<packageFile>>)

RECURSIVE workspacesFrom(_, _, _, _, _, _, _)
workspacesFrom(files, entries, k, installedVersionLookup, targetVersions, list, reads) ==
    IF k > Len(entries) THEN Assembled(list, reads)
    ELSE LET packageFileRelative == entries[k][1]
             packageJson == readPackageJson(ManifestAt(files, packageFileRelative))
             upgradedMap == ObjectEntries(entries[k][2])
         IN  IF packageJson = Thrown
             THEN AssemblyThrown(Append(reads, packageFileRelative))
             ELSE workspacesFrom(files, entries, k + 1, installedVersionLookup,
                                 targetVersions,
                                 list \o [i \in 1..Len(upgradedMap) |->
                                            BaseCandidate(packageFileRelative, packageJson,
                                                          upgradedMap[i],
                                                          installedVersionLookup,
                                                          targetVersions)],
                                 Append(reads, packageFileRelative))

buildCandidatesFromWorkspaces(files, upgraded, installedVersionLookup, targetVersions) ==
    workspacesFrom(files, ObjectEntries(upgraded), 1, installedVersionLookup, targetVersions,
                   <<>>, <<>>)

buildCandidates(files, upgraded, installedVersionLookup, targetVersions) ==
    IF upgraded = Undefined THEN Assembled(<<>>, <<>>)
    ELSE IF isWorkspacesResult(upgraded)
        THEN buildCandidatesFromWorkspaces(files, upgraded, installedVersionLookup,
                                           targetVersions)
    ELSE buildCandidatesFromRoot(files, upgraded, installedVersionLookup, targetVersions)

\* String.prototype.localeCompare on the strings of a collation table
localeCompare(collation, a, b) ==
    LET rank(str) == CHOOSE k \in 1..Len(collation) : collation[k] = str
    IN  rank(a) - rank(b)

\* "package.json" sorts before "packages/app/package.json", "@s/b" before "lodash"
FileCollation == <<RootManifest, AppManifest>>
NameCollation == <<"@s/b", "lodash", "other">>

dependencyTypeOrder == <<"dependencies", "devDependencies", "unknown">>

\* Array.prototype.indexOf, 0-based
indexOfType(dependencyType) ==
    (CHOOSE k \in 1..Len(dependencyTypeOrder) : dependencyTypeOrder[k] = dependencyType) - 1

\* sortCandidates' comparator
compareCandidates(a, b) ==
    IF a.packageFile # b.packageFile
    THEN localeCompare(FileCollation, a.packageFile, b.packageFile)
    ELSE IF a.dependencyType # b.dependencyType
    THEN indexOfType(a.dependencyType) - indexOfType(b.dependencyType)
    ELSE localeCompare(NameCollation, a.packageName, b.packageName)

\* Array.prototype.sort is stable: an element goes after the last one that
\* does not compare greater
insertCandidate(sorted, candidate) ==
    LET before == { k \in 1..Len(sorted) : compareCandidates(sorted[k], candidate) <= 0 }
        at == IF before = {} THEN 0 ELSE CHOOSE k \in before : \A j \in before : j <= k
    IN  SubSeq(sorted, 1, at) \o <<candidate>> \o SubSeq(sorted, at + 1, Len(sorted))

RECURSIVE sortFrom(_, _)
sortFrom(list, sorted) ==
    IF list = <<>> THEN sorted
    ELSE sortFrom(Tail(list), insertCandidate(sorted, Head(list)))

sortCandidates(list) == sortFrom(list, <<>>)

\* ---- The Report Builder: build.ts lines 206-225

\* packages[packageFile][dependencyType][packageName], the last candidate
\* written under a key winning
buildPackagesFromCandidates(list) ==
    LET Files == { list[i].candidate.packageFile : i \in 1..Len(list) }
        Types(file) == { list[i].candidate.dependencyType :
                           i \in { k \in 1..Len(list) : list[k].candidate.packageFile = file } }
        Under(file, type) == { k \in 1..Len(list) :
                                  /\ list[k].candidate.packageFile = file
                                  /\ list[k].candidate.dependencyType = type }
        Names(file, type) == { list[k].candidate.packageName : k \in Under(file, type) }
        Last(file, type, name) ==
            CHOOSE k \in Under(file, type) :
                /\ list[k].candidate.packageName = name
                /\ \A j \in Under(file, type) :
                      list[j].candidate.packageName = name => j <= k
    IN  [file \in Files |->
            [type \in Types(file) |->
                [name \in Names(file, type) |->
                    [current |-> list[Last(file, type, name)].candidate.current,
                     target |-> list[Last(file, type, name)].candidate.target,
                     versionWindow |-> list[Last(file, type, name)].versionWindow,
                     evidence |-> list[Last(file, type, name)].evidence]]]]

-----------------------------------------------------------------------------
(* SpecReport: the project on disk, the suggestion engine, one run *)

ManifestFile(value) == File(TRUE, TRUE, JsonText(value), "wellFormed", <<>>)

\* lodash in dependencies, @s/b in both maps
DeclaresBoth ==
    << << <<"dependencies">>,
          Obj(<< <<Lodash, Str(<<"^4.17.0">>)>>, <<ScopedB, Str(<<"^1.0.0">>)>> >>) >>,
       << <<"devDependencies">>, Obj(<< <<ScopedB, Str(<<"^0.9.0">>)>> >>) >> >>

\* lodash in devDependencies only, @s/b in neither; no dependencies map
DeclaresDevOnly ==
    << << <<"devDependencies">>, Obj(<< <<Lodash, Str(<<"^4.17.0">>)>> >>) >> >>

\* No string for either package: dependencies gives lodash a number, and
\* devDependencies is no map
DeclaresNeither ==
    << << <<"dependencies">>, Obj(<< <<Lodash, Num>> >>) >>,
       << <<"devDependencies">>, Str(<<"x">>) >> >>

Declarations == {DeclaresBoth, DeclaresDevOnly, DeclaresNeither}

WorkspacesFields ==
    { <<>>,
      << << <<"workspaces">>, Arr(<<Str(<<"packages/*">>)>>) >> >>,
      << << <<"workspaces">>, Obj(<< << <<"packages">>, Arr(<<Num, Str(<<"packages/*">>)>>) >> >>) >> >>,
      << << <<"workspaces">>, Arr(<<Str(<<>>)>>) >> >> }

BadManifests ==
    { AbsentFile, UnreadableFile, GarbageFile,
      Malformed(JsonText(Num)), Malformed(JsonText(JsNull)), Malformed(JsonText(Str(<<"x">>))) }

WorkspaceYamls ==
    { AbsentFile, GarbageFile, Malformed(YamlText(JsNull)),
      ManifestFile(Obj(<< << <<"packages">>, Arr(<<Str(<<"packages/*">>)>>) >> >>)) }

Scopes == {"all", "root", "workspaces"}

\* ---- What the suggestion engine does when it is run

Engine(outcome, raw, resolved) == [outcome |-> outcome, raw |-> raw, resolved |-> resolved]

SuggestLodash == <<Lodash, Str(<<"^5.0.0">>)>>
SuggestScopedB == <<ScopedB, Str(<<"^2.0.0">>)>>

\* The callbacks the engine makes to filterResults, in order: none, one with
\* a version that is no string, one per package, two for lodash, and one for
\* lodash with a version followed by one without
ResolvedNone == <<>>
ResolvedPartly == << <<Lodash, Null>>, <<ScopedB, SemVer(2, 0, 0, 0)>> >>
ResolvedAll == << <<Lodash, SemVer(5, 0, 0, 0)>>, <<ScopedB, SemVer(2, 0, 0, 0)>> >>
ResolvedTwice ==
    << <<Lodash, SemVer(4, 18, 0, 0)>>, <<ScopedB, SemVer(2, 0, 0, 0)>>,
       <<Lodash, SemVer(5, 0, 0, 0)>> >>
ResolvedThenNot == << <<Lodash, SemVer(5, 0, 0, 0)>>, <<Lodash, Null>> >>

InvalidResults ==
    { Num, JsNull,
      Obj(<< <<Lodash, Num>> >>),
      Obj(<< <<RootManifest, Str(<<"^5.0.0">>)>> >>),
      Obj(<< <<RootManifest, Obj(<< <<Lodash, Num>> >>)>> >>),
      Obj(<< <<RootManifest, Obj(<<SuggestLodash>>)>>, SuggestScopedB >>) }

NoSuggestions == { Undefined, Obj(<<>>), Obj(<< <<RootManifest, Obj(<<>>)>> >>) }

FlatResults ==
    { Obj(<<SuggestScopedB>>), Obj(<<SuggestLodash, SuggestScopedB>>) }

WorkspacesResults ==
    { Obj(<< <<AppManifest, Obj(<<SuggestScopedB>>)>>,
             <<RootManifest, Obj(<<SuggestLodash>>)>> >>),
      Obj(<< <<RootManifest, Obj(<<SuggestLodash, SuggestScopedB>>)>> >>),
      Obj(<< <<AppManifest, Obj(<<SuggestLodash>>)>> >>) }

\* lodash in two manifests, with two suggested ranges
SharedPackageResults ==
    { Obj(<< <<AppManifest, Obj(<< <<Lodash, Str(<<"^4.18.0">>)>> >>)>>,
             <<RootManifest, Obj(<<SuggestLodash>>)>> >>) }

\* Engines that suggest nothing or fail
QuietEngines ==
    { Engine("rejects", Undefined, ResolvedNone) }
        \cup { Engine("returns", raw, ResolvedNone) : raw \in InvalidResults \cup NoSuggestions }

SuggestingEngines ==
    { Engine("returns", raw, resolved) :
        raw \in FlatResults \cup WorkspacesResults,
        resolved \in {ResolvedNone, ResolvedPartly, ResolvedAll} }

\* ---- The lockfiles of the project

NoLockfiles == [t \in TypeSet |-> AbsentFile]

ReportLockfiles ==
    { NoLockfiles,
      [NoLockfiles EXCEPT !["npm"] = SynthesizeNpm(<<FactPool[1], FactPool[2]>>, {"packages"})],
      [NoLockfiles EXCEPT !["pnpm"] = SynthesizePnpm(<<FactPool[2], FactPool[4]>>,
                                                     <<"dependencies">>, "string", TRUE)],
      [NoLockfiles EXCEPT !["pnpm"] = Malformed(YamlText(Obj(<<>>))),
                          !["npm"] = SynthesizeNpm(<<FactPool[1], FactPool[2]>>, {"packages"})],
      [NoLockfiles EXCEPT !["yarn"] = GarbageFile,
                          !["bun"] = UnreadableFile] }

DefaultLockfiles ==
    [NoLockfiles EXCEPT !["npm"] = SynthesizeNpm(<<FactPool[1], FactPool[2]>>, {"packages"})]

\* ---- The projects and runs checked

Project(root, app, yaml, dumpDir, engine) ==
    [manifests |-> [file \in {RootManifest, AppManifest} |->
                       IF file = RootManifest THEN root ELSE app],
     workspaceYaml |-> yaml, dumpDir |-> dumpDir, engine |-> engine]

DumpDirs == {"none", "writable", "unwritable"}

Scenario(project, scope, r, files) ==
    [env |-> project, scope |-> scope, risk |-> r, lockfiles |-> files]

\* The root manifest and the workspace configuration vary; the engine
\* suggests nothing
ScopeScenarios ==
    { Scenario(Project(root, ManifestFile(Obj(DeclaresDevOnly)), yaml, "none", engine),
               scope, "all", DefaultLockfiles) :
        root \in BadManifests \cup { ManifestFile(Obj(field \o DeclaresBoth)) :
                                       field \in WorkspacesFields },
        yaml \in WorkspaceYamls,
        scope \in Scopes,
        engine \in QuietEngines }

\* The engine's suggestions, the manifests, the lockfiles and the dump
\* directory vary; the risk filter keeps no candidate
AssemblyScenarios ==
    { Scenario(Project(ManifestFile(Obj(declared)), app, AbsentFile, dumpDir, engine),
               "all", "prerelease-only", files) :
        declared \in Declarations,
        app \in {AbsentFile, Malformed(JsonText(Num))}
                  \cup { ManifestFile(Obj(d)) : d \in Declarations },
        dumpDir \in DumpDirs,
        engine \in SuggestingEngines,
        files \in ReportLockfiles }

\* The lockfiles and the dump directory vary; the candidates go through the
\* evidence collector
EvidenceScenarios ==
    { Scenario(Project(ManifestFile(Obj(<< << <<"workspaces">>,
                                                 Arr(<<Str(<<"packages/*">>)>>) >> >>
                                            \o DeclaresBoth)),
                       ManifestFile(Obj(DeclaresBoth)),
                       AbsentFile, dumpDir, Engine("returns", raw, ResolvedAll)),
               "all", r, files) :
        dumpDir \in {"none", "writable"},
        raw \in { Obj(<<SuggestScopedB>>),
                  Obj(<< <<AppManifest, Obj(<<SuggestScopedB>>)>>,
                         <<RootManifest, Obj(<<SuggestLodash>>)>> >>) },
        r \in {"all", "major-only"},
        files \in ReportLockfiles }

\* devDependencies declares lodash with an older range
DeclaresOlder ==
    << << <<"devDependencies">>, Obj(<< <<Lodash, Str(<<"^0.9.0">>)>> >>) >> >>

\* The engine's callbacks vary; lodash is suggested for the root manifest, or
\* for the root and the app manifest, which declare it differently
TargetScenarios ==
    { Scenario(Project(ManifestFile(Obj(DeclaresBoth)), ManifestFile(Obj(DeclaresOlder)),
                       AbsentFile, "none", Engine("returns", raw, resolved)),
               "all", "prerelease-only", files) :
        raw \in SharedPackageResults \cup {Obj(<<SuggestLodash, SuggestScopedB>>)},
        resolved \in {ResolvedNone, ResolvedPartly, ResolvedAll, ResolvedTwice,
                      ResolvedThenNot},
        files \in {NoLockfiles, DefaultLockfiles} }

Scenarios == ScopeScenarios \cup AssemblyScenarios \cup EvidenceScenarios \cup TargetScenarios

InitReport ==
    /\ \E scenario \in Scenarios :
          /\ env = scenario.env
          /\ options = [scope |-> scenario.scope]
          /\ risk = scenario.risk
          /\ lockfiles = scenario.lockfiles
    /\ workspaceConfig = FALSE
    /\ scopeEffective = "none"
    /\ ncu = NotRun
    /\ effects = <<>>
    /\ report = NoReport
    /\ reportPc = "start"
    /\ candidates = <<>>
    /\ groups = <<>>
    /\ filteredCandidates = <<>>
    /\ riskPc = "idle"
    /\ lookupFn = [type |-> "none"]
    /\ lookupBuilder = "none"
    /\ lookupArgs = <<>>
    /\ lookupResult = Undefined
    /\ lockPc = "ready"
    /\ IdleWindow
    /\ IdleEvidence
    /\ IdleCalls

Effect(op, target) == [op |-> op, target |-> target]

\* writeDebugDump when options.debugDumpDir is set: the effects of the dumps
\* named, and whether one of them threw
writeDebugDumps(names) ==
    IF env.dumpDir = "none" THEN [ok |-> TRUE, effects |-> <<>>]
    ELSE IF env.dumpDir = "writable"
        THEN [ok |-> TRUE, effects |-> [i \in 1..Len(names) |-> Effect("dump", names[i])]]
    ELSE [ok |-> FALSE, effects |-> <<Effect("dump", names[1])>>]

\* Line 40
ReadRootManifest ==
    /\ reportPc = "start"
    /\ effects' = Append(effects, Effect("read", RootManifest))
    /\ reportPc' = IF readRootPackageJsonOrThrow(env) = JsNull THEN "rejected" ELSE "root"
    /\ UNCHANGED <<env, options, workspaceConfig, scopeEffective, ncu, report>>
    /\ UNCHANGED <<riskVars, windowVars, evVars, lockVars, callVars>>

\* Lines 41-49
ResolveScope ==
    /\ reportPc = "root"
    /\ LET workspacesAvailable == hasWorkspaceConfig(env, readRootPackageJsonOrThrow(env))
       IN  /\ workspaceConfig' = workspacesAvailable
           /\ scopeEffective' = resolveScopeEffective(options.scope, workspacesAvailable)
    /\ effects' = Append(effects, Effect("read", <<"pnpm-workspace.yaml">>))
    /\ reportPc' = "scope"
    /\ UNCHANGED <<env, options, ncu, report>>
    /\ UNCHANGED <<riskVars, windowVars, evVars, lockVars, callVars>>

\* Lines 51-53
BuildLookup ==
    /\ reportPc = "scope"
    /\ lookupFn' = createInstalledVersionLookup(lockfiles)
    /\ lookupBuilder' = "selector"
    /\ lockPc' = "built"
    /\ effects' = Append(effects, Effect("lockfile", <<findLockfile(lockfiles)>>))
    /\ reportPc' = "lookup"
    /\ UNCHANGED <<lockfiles, lookupArgs, lookupResult>>
    /\ UNCHANGED <<env, options, workspaceConfig, scopeEffective, ncu, report>>
    /\ UNCHANGED <<riskVars, windowVars, evVars, callVars>>

\* Lines 54-78: the engine runs, its result is coerced and, when asked for,
\* dumped
RunSuggestionEngine ==
    /\ reportPc = "lookup"
    /\ LET engine == env.engine
           upgraded == IF engine.outcome = "rejects" THEN Thrown
                       ELSE coerceNcuUpgraded(engine.raw)
           dumps == writeDebugDumps(<< <<"00-ncu-raw.json">>, <<"01-ncu-normalized.json">> >>)
       IN  IF upgraded = Thrown
           THEN /\ ncu' = [state |-> "failed", raw |-> engine.raw, upgraded |-> Undefined,
                           targetVersions |-> <<>>]
                /\ effects' = Append(effects, Effect("ncu", <<scopeEffective>>))
                /\ reportPc' = "rejected"
           ELSE /\ ncu' = [state |-> "returned", raw |-> engine.raw, upgraded |-> upgraded,
                           targetVersions |-> collectTargetVersions(engine.resolved)]
                /\ effects' = Append(effects, Effect("ncu", <<scopeEffective>>)) \o dumps.effects
                /\ reportPc' = IF dumps.ok THEN "suggested" ELSE "rejected"
    /\ UNCHANGED <<env, options, workspaceConfig, scopeEffective, report>>
    /\ UNCHANGED <<riskVars, windowVars, evVars, lockVars, callVars>>

\* Lines 80-96: the candidates are built, sorted, filtered and, when asked
\* for, dumped
AssembleCandidates ==
    /\ reportPc = "suggested"
    /\ LET built == buildCandidates(env, ncu.upgraded, lookupFn, ncu.targetVersions)
           reads == [i \in 1..Len(built.reads) |-> Effect("read", built.reads[i])]
           sorted == sortCandidates(built.list)
           dumps == writeDebugDumps(<< <<"02-candidates-with-current.json">> >>)
       IN  IF built.t = "thrown"
           THEN /\ effects' = effects \o reads
                /\ reportPc' = "rejected"
                /\ UNCHANGED <<candidates, filteredCandidates, evPc>>
           ELSE /\ candidates' = sorted
                /\ filteredCandidates' = applyRiskFilter(sorted, risk)
                /\ effects' = effects \o reads \o dumps.effects
                /\ reportPc' = IF dumps.ok THEN "candidates" ELSE "rejected"
                /\ evPc' = IF dumps.ok THEN "ready" ELSE evPc
    /\ UNCHANGED <<risk, groups, riskPc>>
    /\ UNCHANGED <<inputs, tasks, fetches, probes, registryCache, urlReachableCache,
                   cacheHits, results, candidatesWithEvidence>>
    /\ UNCHANGED <<env, options, workspaceConfig, scopeEffective, ncu, report>>
    /\ UNCHANGED <<windowVars, lockVars, callVars>>

\* Lines 109-128, once lines 98-108 (CollectCandidateEvidence ... MergeEvidence)
\* have merged the evidence
ReturnReport ==
    /\ reportPc = "candidates"
    /\ evPc = "merged"
    /\ LET dumps == writeDebugDumps(<< <<"03-candidates-with-evidence.json">> >>)
       IN  /\ effects' = effects \o dumps.effects
           /\ IF dumps.ok
              THEN /\ report' = [generatedAt |-> "now",
                                 options |-> [scopeRequested |-> options.scope,
                                              scopeEffective |-> scopeEffective,
                                              risk |-> risk],
                                 packages |-> buildPackagesFromCandidates(candidatesWithEvidence)]
                   /\ reportPc' = "resolved"
              ELSE /\ report' = report
                   /\ reportPc' = "rejected"
    /\ UNCHANGED <<env, options, workspaceConfig, scopeEffective, ncu>>
    /\ UNCHANGED <<riskVars, windowVars, evVars, lockVars, callVars>>

NextReport ==
    \/ ReadRootManifest
    \/ ResolveScope
    \/ BuildLookup
    \/ RunSuggestionEngine
    \/ AssembleCandidates
    \/ CollectCandidateEvidence
    \/ RegistryResponds
    \/ ProbeResponds
    \/ MergeEvidence
    \/ ReturnReport

SpecReport == InitReport /\ [][NextReport]_vars

-----------------------------------------------------------------------------
(* Claims about the report run (SpecReport) *)

RootFile == env.manifests[RootManifest]

\* The root manifest is a readable file holding a JSON object
RootManifestOk == RootFile.kind = "wellFormed"

\* The engine returned and its result has the flat or the nested shape
EngineOk == env.engine.outcome = "returns" /\ env.engine.raw \notin InvalidResults

C19_ScopeFallsBackToRoot ==
    scopeEffective # "none" =>
        /\ (workspaceConfig \/ options.scope = "root") => scopeEffective = options.scope
        /\ ~(workspaceConfig \/ options.scope = "root") => scopeEffective = "root"
        /\ ~workspaceConfig => scopeEffective \notin {"all", "workspaces"}

\* workspaces was requested, neither the root manifest nor pnpm-workspace.yaml
\* lists a pattern, and the effective scope is root
C19_Witness ==
    /\ options.scope = "workspaces"
    /\ ~workspaceConfig
    /\ env.workspaceYaml.kind = "garbage"
    /\ scopeEffective = "root"

\* ---- C18

\* buildCandidates has returned
CandidatesBuilt == reportPc \in {"candidates", "resolved"}

\* The (packageFile, packageName) entries of the mapping the engine returned
SuggestionEntries ==
    LET raw == env.engine.raw
    IN  IF raw \in FlatResults
        THEN { <<RootManifest, raw.entries[i][1]>> : i \in 1..Len(raw.entries) }
        ELSE IF raw \in WorkspacesResults \cup SharedPackageResults
                           \cup {Obj(<< <<RootManifest, Obj(<<>>)>> >>)}
        THEN UNION { { <<raw.entries[i][1], raw.entries[i][2].entries[j][1]>> :
                         j \in 1..Len(raw.entries[i][2].entries) } :
                     i \in 1..Len(raw.entries) }
        ELSE {}

\* The string ranges the map of the manifest declares for the package
DeclaredRanges(packageFile, map, packageName) ==
    LET manifest == env.manifests[packageFile].text.value
    IN  { r \in {<<>>, <<"^4.17.0">>, <<"^1.0.0">>, <<"^0.9.0">>} :
            \E i \in 1..Len(manifest.entries) :
                /\ manifest.entries[i][1] = map
                /\ manifest.entries[i][2].t = "object"
                /\ \E j \in 1..Len(manifest.entries[i][2].entries) :
                      manifest.entries[i][2].entries[j] = <<packageName, Str(r)>> }

CandidatesOf(entry) ==
    { i \in 1..Len(candidates) :
        /\ candidates[i].packageFile = entry[1]
        /\ candidates[i].packageName = JoinName(entry[2]) }

\* C18: buildCandidates yields exactly one candidate per (packageFile,
\* packageName) entry of the suggestion mapping; a candidate's dependencyType
\* is dependencies when the manifest's dependencies map declares the package
\* (even if devDependencies also does), devDependencies when only
\* devDependencies declares it, and unknown, with an empty current range,
\* exactly when neither map declares it. (A map declares a package when it
\* gives it a string.)
C18_OneCandidatePerEntryTyped ==
    CandidatesBuilt =>
        /\ Len(candidates) = Cardinality(SuggestionEntries)
        /\ \A entry \in SuggestionEntries :
              /\ Cardinality(CandidatesOf(entry)) = 1
              /\ \A i \in CandidatesOf(entry) :
                    LET deps == DeclaredRanges(entry[1], <<"dependencies">>, entry[2])
                        devDeps == DeclaredRanges(entry[1], <<"devDependencies">>, entry[2])
                        c == candidates[i]
                    IN  /\ deps # {} =>
                              c.dependencyType = "dependencies" /\ c.current.range \in deps
                        /\ (deps = {} /\ devDeps # {}) =>
                              c.dependencyType = "devDependencies"
                                  /\ c.current.range \in devDeps
                        /\ (deps = {} /\ devDeps = {}) <=> c.dependencyType = "unknown"
                        /\ c.dependencyType = "unknown" => c.current.range = <<>>

\* Two candidates: @s/b, declared by both maps of its manifest, is a
\* dependencies candidate with the range of the dependencies map; lodash, to
\* which neither map of its manifest gives a string, is unknown
C18_Witness ==
    /\ CandidatesBuilt
    /\ Len(candidates) = 2
    /\ \E i \in 1..2 :
          /\ candidates[i].packageName = "@s/b"
          /\ candidates[i].dependencyType = "dependencies"
          /\ candidates[i].current.range = <<"^1.0.0">>
          /\ DeclaredRanges(candidates[i].packageFile, <<"devDependencies">>, ScopedB) # {}
    /\ \E i \in 1..2 :
          /\ candidates[i].packageName = "lodash"
          /\ candidates[i].dependencyType = "unknown"

\* ---- C17

\* The manifests buildCandidates reads for the mapping the engine returned
NamedManifests ==
    LET raw == env.engine.raw
    IN  IF raw = Undefined THEN {}
        ELSE IF raw \in WorkspacesResults \cup SharedPackageResults
                           \cup {Obj(<< <<RootManifest, Obj(<<>>)>> >>)}
        THEN { raw.entries[i][1] : i \in 1..Len(raw.entries) }
        ELSE {RootManifest}

AssemblerManifestsOk ==
    \A packageFile \in NamedManifests : env.manifests[packageFile].kind = "wellFormed"

-----------------------------------------------------------------------------
(* Claims about the order of the probes of one candidate (Spec) *)

\* Every probe of the URL was answered, and none with a status in [200, 400)
AnsweredUnreachable(url) ==
    /\ url \in DOMAIN probes
    /\ \A n \in 1..Len(probes[url]) :
          probes[url][n].state = "fulfilled" /\ ~probes[url][n].reachable

Position(urls, url) ==
    IF \E k \in 1..Len(urls) : urls[k] = url
    THEN CHOOSE k \in 1..Len(urls) : urls[k] = url
    ELSE 0

RepositoryOf(t) == IF t.registry.ok THEN normalizeRepositoryUrl(t.registry.repository) ELSE ""

\* The changelog URLs of the task's repository, in the order of the paths
ChangelogList(t) ==
    [k \in 1..Len(ChangelogCandidates) |->
        Link("raw", RepositoryOf(t), ChangelogCandidates[k], NoTag, NoTag)]

\* The compare URLs of the task: tags v<ver>, <ver>, <pkg>@<ver> and, for a
\* scoped package only, <unscoped>@<ver>
CompareList(t) ==
    LET from == normalizeTagVersion(t.input.installedVersion)
        to == normalizeTagVersion(t.input.targetVersion)
        name == t.input.packageName
        forms == IF name \in ScopedNames
                 THEN << <<"v", "">>, <<"bare", "">>, <<"name@", name>>,
                         <<"name@", getUnscopedPackageName(name)>> >>
                 ELSE << <<"v", "">>, <<"bare", "">>, <<"name@", name>> >>
    IN  [k \in 1..Len(forms) |->
            Link("compare", RepositoryOf(t), "",
                 [form |-> forms[k][1], name |-> forms[k][2], version |-> from,
                  encoded |-> TRUE],
                 [form |-> forms[k][1], name |-> forms[k][2], version |-> to,
                  encoded |-> TRUE])]

\* The task has entered the search of the changelog list / of the compare list
SearchesChangelog(t) == RepositoryOf(t) # "" /\ t.pc \in {"awaitChangelog", "awaitCompare", "done"}
SearchesCompare(t) ==
    /\ t.pc \in {"awaitCompare", "done"}
    /\ RepositoryOf(t) # ""
    /\ Truthy(t.input.installedVersion) /\ Truthy(t.input.targetVersion)
    /\ Truthy(normalizeTagVersion(t.input.installedVersion))
    /\ Truthy(normalizeTagVersion(t.input.targetVersion))

\* One search of a task: its list, whether it is still going on, the link it
\* has reported, and how many URLs of the list it has asked for
Search(t, list) ==
    LET urls == IF list = "changelog" THEN ChangelogList(t) ELSE CompareList(t)
        entered == IF list = "changelog" THEN SearchesChangelog(t) ELSE SearchesCompare(t)
        going == t.pc = (IF list = "changelog" THEN "awaitChangelog" ELSE "awaitCompare")
        found == IF list = "changelog" THEN t.changelog ELSE t.compare
    IN  [urls |-> urls, entered |-> entered, going |-> going, found |-> found,
         asked |-> IF ~entered THEN 0
                   ELSE IF going THEN t.idx
                   ELSE IF IsLink(found) THEN Position(urls, found)
                   ELSE Len(urls)]

SearchLists == {"changelog", "compare"}

\* The URLs of the probes issued for a list, whoever asked for them
Probed(list) ==
    { url \in DOMAIN probes : url.kind = (IF list = "changelog" THEN "raw" ELSE "compare") }

\* C22: the changelog paths and the compare tag pairs (v<ver>, <ver>,
\* <pkg>@<ver> and, for scoped packages only, <unscoped>@<ver>) are probed one
\* at a time in list order; a search stops at the first reachable URL and
\* reports it, no later URL of the list is requested on behalf of the
\* candidate, and when none is reachable the link is omitted.
C22_ProbesInOrderUntilReachable ==
    \A list \in SearchLists :
        /\ \A i \in 1..Len(tasks) :
              LET q == Search(tasks[i], list) IN
              /\ q.asked <= Len(q.urls)
              /\ \A j \in 1..(q.asked - 1) : AnsweredUnreachable(q.urls[j])
              /\ q.going => /\ q.asked >= 1
                            /\ tasks[i].url = q.urls[q.asked]
                            /\ q.urls[q.asked] \in DOMAIN probes
                            /\ ~IsLink(q.found)
              /\ (q.entered /\ ~q.going /\ IsLink(q.found)) =>
                    /\ q.asked >= 1
                    /\ q.found = q.urls[q.asked]
                    /\ AnsweredReachable(q.found)
              /\ (q.entered /\ ~q.going /\ ~IsLink(q.found)) =>
                    \A j \in 1..Len(q.urls) : AnsweredUnreachable(q.urls[j])
              /\ ~q.entered => ~IsLink(q.found)
              /\ Done(i) =>
                    LET links == results.values[i].value.evidence.links
                    IN  IF IsLink(q.found)
                        THEN list \in DOMAIN links /\ links[list] = q.found
                        ELSE list \notin DOMAIN links
        /\ Probed(list) =
              UNION { { Search(tasks[i], list).urls[j] :
                          j \in 1..Search(tasks[i], list).asked } : i \in 1..Len(tasks) }

\* A scoped package's compare search stopped at its third tag pair although
\* its changelog search found nothing, and a candidate of an unscoped package
\* went through its three pairs without a link
C22_Witness ==
    /\ Len(tasks) = 2
    /\ Done(1) /\ Done(2)
    /\ tasks[1].input.packageName \in ScopedNames
    /\ Search(tasks[1], "changelog").entered /\ ~IsLink(tasks[1].changelog)
    /\ Search(tasks[1], "compare").asked = 3
    /\ IsLink(tasks[1].compare)
    /\ Len(Search(tasks[1], "compare").urls) = 4
    /\ Search(tasks[2], "compare").entered
    /\ Search(tasks[2], "compare").asked = 3
    /\ ~IsLink(tasks[2].compare)

\* The registry fetch of the task's package has settled without a record
RegistryFailed(t) ==
    /\ t.input.packageName \in DOMAIN fetches
    /\ \A n \in 1..Len(fetches[t.input.packageName]) :
          LET p == fetches[t.input.packageName][n]
          IN  p.state # "pending" /\ ~(p.state = "fulfilled" /\ p.registry.ok)

\* C23: when the registry fetch of a candidate's package fails, answers with
\* a non-OK status or with a body that is no object, the candidate's
\* versionWindow is all zero, its evidence holds at most the npmDiffLink, and
\* no reachability probe is issued on its behalf.
C23_NoRecordNoProbes ==
    \A i \in 1..Len(tasks) :
        RegistryFailed(tasks[i]) =>
            /\ Done(i)
            /\ results.values[i].set
            /\ results.values[i].value.versionWindow = createEmptyVersionWindow
            /\ DOMAIN results.values[i].value.evidence.links \subseteq {"npmDiffLink"}
            /\ tasks[i].url = NoLink
            /\ \A url \in DOMAIN probes :
                  \E j \in 1..Len(tasks) : ~RegistryFailed(tasks[j]) /\ tasks[j].registry.ok

\* The first package's registry fetch failed while the second package's
\* candidate, with both versions present like the first, was being probed:
\* the first has its npmDiffLink only
C23_Witness ==
    /\ Len(tasks) = 2
    /\ RegistryFailed(tasks[1])
    /\ BothPresent(tasks[1].input)
    /\ DOMAIN results.values[1].value.evidence.links = {"npmDiffLink"}
    /\ tasks[2].pc = "awaitChangelog"
    /\ DOMAIN probes # {}

\* The registry fetch of the task's package resolved with a record that names
\* a GitHub repository
HasGitHubRecord(t) ==
    /\ t.input.packageName \in DOMAIN fetches
    /\ \E n \in 1..Len(fetches[t.input.packageName]) :
          LET p == fetches[t.input.packageName][n]
          IN  /\ p.state = "fulfilled" /\ p.registry.ok
              /\ p.registry.repository.form \in GitHubForms
              /\ p.registry.repository.path # ""
              /\ t.registry = p.registry

Settled(url) ==
    /\ url \in DOMAIN probes
    /\ \A n \in 1..Len(probes[url]) : probes[url][n].state # "pending"

\* The changelog search of the repository has come to its end
ChangelogSearchFinished(t) ==
    \/ IsLink(t.changelog) /\ AnsweredReachable(t.changelog)
    \/ /\ ~IsLink(t.changelog)
       /\ \A k \in 1..Len(ChangelogCandidates) :
             AnsweredUnreachable(ChangelogUrl(RepositoryOf(t), k))

-----------------------------------------------------------------------------
(* SpecLive: collectCandidateEvidence on a network that answers every request
   it was sent; the fetch of fetchRegistryPackage and the fetch of checkUrl
   have no timeout, so nothing but the answer settles a request *)

\* The filtered candidate lists of at most MaxLiveInputs candidates
LiveCandidateLists == { list \in EvidenceCandidateLists : Len(list) <= MaxLiveInputs }

InitLive == Init /\ filteredCandidates \in LiveCandidateLists

SpecLive ==
    InitLive /\ [][Next]_vars /\ WF_vars(RegistryResponds) /\ WF_vars(ProbeResponds)

AllResults ==
    /\ results.state = "fulfilled"
    /\ Len(results.values) = Len(inputs)
    /\ \A i \in 1..Len(results.values) : results.values[i].set

RECURSIVE IssuedFrom(_, _)
IssuedFrom(requests, keys) ==
    IF keys = {} THEN 0
    ELSE LET k == CHOOSE x \in keys : TRUE
         IN  Len(requests[k]) + IssuedFrom(requests, keys \ {k})

\* The number of requests issued so far
Issued(requests) == IssuedFrom(requests, DOMAIN requests)

\* C26: when every issued fetch and probe eventually settles, the call
\* eventually resolves with all results, having issued at most one registry
\* fetch and a bounded number of probes per candidate; while an issued request
\* has not settled the batch has not resolved, so it never resolves when one
\* request never settles.
C26_ResolvesIffEveryRequestSettles ==
    /\ (evPc = "collecting") ~> AllResults
    /\ [](results.state # "pending" => AllResults /\ NothingPending)
    /\ [](/\ Issued(fetches) <= Len(tasks)
          /\ Issued(probes) <= Len(tasks) * (1 + Len(ChangelogCandidates) + 4))

\* The call has resolved for two candidates after the registry was asked for
\* two packages and six or more URLs were probed
C26_Witness ==
    /\ evPc = "collecting"
    /\ Len(tasks) = 2
    /\ AllResults
    /\ Issued(fetches) = 2
    /\ Issued(probes) >= 6

-----------------------------------------------------------------------------
(* SpecCalls: collectCandidateEvidence called MaxCalls times for a candidate
   of the same package, a call being made while the calls before it are at
   any point of their run *)

CallInputLists ==
    { <<EvidenceInput("a", vp[1], vp[2])>> : vp \in EvidenceVersionPairs }

InitCalls ==
    /\ calls = <<>>
    /\ IdleRisk
    /\ IdleWindow
    /\ IdleEvidence
    /\ IdleLockfile
    /\ IdleReport

\* collectCandidateEvidence is called: lines 58-69, up to the return of
\* Promise.all(...)
MakeCall ==
    /\ Len(calls) < MaxCalls
    /\ \E ins \in CallInputLists :
         \E made \in { StartAll(NewCall(ins), 1) } : calls' = Append(calls, made)
    /\ UNCHANGED <<riskVars, windowVars, evVars, lockVars, reportVars>>

\* The registry answers a pending fetch of call c
RegistryRespondsIn ==
    /\ \E c \in 1..Len(calls) :
         \E name \in DOMAIN calls[c].fetches :
           \E n \in 1..Len(calls[c].fetches[name]) :
             \E response \in RegistryResponses :
               /\ calls[c].fetches[name][n].state = "pending"
               /\ \E settled \in { [calls[c] EXCEPT
                                      !.fetches[name][n] = fetchRegistryPackage(response)] } :
                     \E drained \in { Drain(settled) } :
                        calls' = [calls EXCEPT ![c] = drained]
    /\ UNCHANGED <<riskVars, windowVars, evVars, lockVars, reportVars>>

\* A probed server answers a pending HEAD request of call c
ProbeRespondsIn ==
    /\ \E c \in 1..Len(calls) :
         \E url \in DOMAIN calls[c].probes :
           \E n \in 1..Len(calls[c].probes[url]) :
             \E response \in ProbeResponses :
               /\ calls[c].probes[url][n].state = "pending"
               /\ \E settled \in { [calls[c] EXCEPT !.probes[url][n] = checkUrl(response)] } :
                     \E drained \in { Drain(settled) } :
                        calls' = [calls EXCEPT ![c] = drained]
    /\ UNCHANGED <<riskVars, windowVars, evVars, lockVars, reportVars>>

NextCalls == MakeCall \/ RegistryRespondsIn \/ ProbeRespondsIn

SpecCalls == InitCalls /\ [][NextCalls]_vars

\* The call that was just made starts from empty caches: every package of its
\* inputs has one fetch, issued by this call and pending, and no URL is cached
StartsFresh(s) ==
    /\ DOMAIN s.registryCache = { s.tasks[i].input.packageName : i \in 1..Len(s.tasks) }
    /\ DOMAIN s.fetches = DOMAIN s.registryCache
    /\ \A name \in DOMAIN s.fetches :
          Len(s.fetches[name]) = 1 /\ s.fetches[name][1].state = "pending"
    /\ s.urlReachableCache = <<>>
    /\ s.probes = <<>>
    /\ s.cacheHits = {}

\* The result of a task of call s is the one the answers given to this call's
\* own requests determine
OwnAnswersDecide(s, i) ==
    LET t == s.tasks[i]
        p == s.fetches[t.input.packageName][1]
        repo == IF p.registry.ok THEN normalizeRepositoryUrl(p.registry.repository) ELSE ""
        latest == LatestUrl(repo)
    IN  t.pc \notin {"init", "awaitRegistry"} =>
            /\ p.state = "fulfilled"
            /\ t.registry = p.registry
            /\ t.pc = "done" =>
                  /\ s.results.values[i].value = t.result
                  /\ t.result.versionWindow =
                        candidateVersionWindow(p.registry, t.input.installedVersion,
                                               t.input.targetVersion)
                  /\ "releases" \in DOMAIN t.result.evidence.links
                        <=> /\ repo # ""
                            /\ latest \in DOMAIN s.probes
                            /\ s.probes[latest][1].state = "fulfilled"
                            /\ s.probes[latest][1].reachable

\* C25: the registry cache and the reachability cache are created anew by
\* every call of collectCandidateEvidence and are not shared between
\* successive or overlapping calls: a call starts with empty caches and issues
\* its own requests, and a failure cached in one call never determines the
\* result of another call.
C25_CachesFreshPerCall ==
    /\ [](\A c \in 1..Len(calls) :
            \A i \in 1..Len(calls[c].tasks) : OwnAnswersDecide(calls[c], i))
    /\ [][Len(calls') = Len(calls) + 1 => StartsFresh(calls'[Len(calls')])]_vars

\* The first call cached a failed registry fetch and returned without a
\* repository link; the second call, for the same package, was answered with
\* a record and has its releases link
C25_Witness ==
    /\ Len(calls) = 2
    /\ calls[1].tasks[1].pc = "done" /\ calls[2].tasks[1].pc = "done"
    /\ calls[1].tasks[1].input.packageName = calls[2].tasks[1].input.packageName
    /\ "a" \in DOMAIN calls[1].registryCache
    /\ ~calls[1].fetches["a"][1].registry.ok
    /\ "releases" \notin DOMAIN calls[1].tasks[1].result.evidence.links
    /\ "releases" \in DOMAIN calls[2].tasks[1].result.evidence.links

-----------------------------------------------------------------------------
(* Claims about the shape of the suggestion engine's result (SpecReport) *)

\* At least one top-level value of the result is an object
HasObjectValue(result) ==
    \E i \in 1..Len(ObjectEntries(result)) : isRecord(ObjectEntries(result)[i][2])

\* The coercion of a result classified by its values alone
CoercedByValues(result) ==
    IF HasObjectValue(result) THEN coerceWorkspaces(ObjectEntries(result))
    ELSE coerceFlat(ObjectEntries(result))

EngineReturnedRecord ==
    /\ ncu.state \in {"returned", "failed"}
    /\ env.engine.outcome = "returns"
    /\ isRecord(ncu.raw)
    /\ Len(ObjectEntries(ncu.raw)) > 0

\* C24: a suggestion-engine result is treated as the nested shape if and only
\* if at least one of its top-level values is an object, whatever its keys:
\* the coercion of the raw result accepts or rejects it as that shape, and
\* normalisation and candidate assembly classify the coerced result the same
\* way.
C24_NestedIffObjectValue ==
    EngineReturnedRecord =>
        /\ ncu.state = "failed" <=> CoercedByValues(ncu.raw) = Thrown
        /\ ncu.state = "returned" =>
              /\ ncu.upgraded = CoercedByValues(ncu.raw)
              /\ isWorkspacesResult(ncu.upgraded) <=> HasObjectValue(ncu.raw)

-----------------------------------------------------------------------------
(* Claims about the order of the steps of collectNextUpdatesReport (SpecReport) *)

PassesFilter(c) ==
    classifyRiskGroup(c.current.version, c.target.version) \in AllowedGroups(risk)

\* The entry of the report's packages map for the candidate, if there is one
HasEntry(c) ==
    /\ c.packageFile \in DOMAIN report.packages
    /\ c.dependencyType \in DOMAIN report.packages[c.packageFile]
    /\ c.packageName \in DOMAIN report.packages[c.packageFile][c.dependencyType]

EntryOf(c) == report.packages[c.packageFile][c.dependencyType][c.packageName]

\* C27: collectNextUpdatesReport assembles, sorts, applies the risk filter,
\* collects evidence and builds the report, in this order: registry fetches
\* and probes are issued only for candidates that pass the risk filter, and
\* the report's packages contain exactly the candidates that pass it, each
\* with the evidence computed for it.
C27_FilterBeforeEvidenceBeforeReport ==
    /\ evPc \in {"idle", "ready"} => fetches = <<>> /\ probes = <<>> /\ tasks = <<>>
    /\ evPc \in {"ready", "collecting", "merged"} =>
          /\ reportPc \in {"candidates", "resolved", "rejected"}
          /\ candidates = sortCandidates(candidates)
          /\ filteredCandidates = SelectSeq(candidates, PassesFilter)
    /\ evPc \in {"collecting", "merged"} =>
          /\ Len(tasks) = Len(filteredCandidates)
          /\ \A i \in 1..Len(tasks) : tasks[i].input = InputOf(filteredCandidates[i])
          /\ DOMAIN fetches \subseteq
                { filteredCandidates[i].packageName : i \in 1..Len(filteredCandidates) }
          /\ probes # <<>> => fetches # <<>>
    /\ report # NoReport =>
          /\ evPc = "merged"
          /\ \A i \in 1..Len(filteredCandidates) :
                LET c == filteredCandidates[i] IN
                /\ HasEntry(c)
                /\ EntryOf(c) = [current |-> c.current, target |-> c.target,
                                 versionWindow |-> results.values[i].value.versionWindow,
                                 evidence |-> results.values[i].value.evidence]
          /\ \A file \in DOMAIN report.packages :
                \A type \in DOMAIN report.packages[file] :
                   \A name \in DOMAIN report.packages[file][type] :
                      \E i \in 1..Len(filteredCandidates) :
                         /\ filteredCandidates[i].packageFile = file
                         /\ filteredCandidates[i].dependencyType = type
                         /\ filteredCandidates[i].packageName = name

\* Of two assembled candidates one passed the filter: the registry was asked
\* for its package alone and the report holds it, with its evidence, alone
C27_Witness ==
    /\ reportPc = "resolved"
    /\ Len(candidates) = 2
    /\ Len(filteredCandidates) = 1
    /\ DOMAIN fetches = {filteredCandidates[1].packageName}
    /\ HasEntry(filteredCandidates[1])
    /\ ~EntryOf(filteredCandidates[1]).evidence.isNull
    /\ \E i \in 1..2 : ~PassesFilter(candidates[i]) /\ ~HasEntry(candidates[i])

-----------------------------------------------------------------------------
(* Claims about the selector when the selected lockfile is unusable
   (SpecLockfile) *)

\* The lockfile types whose file exists, by their place in the probe order
Existing == { k \in 1..Len(ProbeOrder) : lockfiles[ProbeOrder[k]].exists }

FirstExisting == ProbeOrder[CHOOSE k \in Existing : \A other \in Existing : k <= other]

\* The selected lockfile exists but cannot be read, cannot be parsed or has
\* not the expected structure
SelectedUnusable ==
    /\ Existing # {}
    /\ lockfiles[FirstExisting].kind \in {"unreadable", "garbage", "malformed"}

\* What the lookup of a lower-priority lockfile would answer to the query
AnswerOf(type) ==
    CallLookup(BuilderOf(type, lockfiles[type]), lookupArgs[1], lookupArgs[2], lookupArgs[3])

\* C29: lockfile selection is by file existence only, without fallback: when
\* the first existing lockfile in the probe order is unreadable or malformed,
\* the returned lookup yields null for every query, even if a well-formed
\* lockfile of lower priority that records the package also exists.
C29_NoFallbackToLowerPriority ==
    (lookupBuilder = "selector" /\ SelectedUnusable) =>
        /\ lookupFn.type \in {"null", FirstExisting}
        /\ Called => lookupResult = JsNull

\* The pnpm lockfile parses but holds no importers; the npm lockfile next to
\* it would have answered the query with a version: the lookup answered null
C29_Witness ==
    /\ Called
    /\ lookupBuilder = "selector"
    /\ lockfiles["pnpm"].kind = "malformed"
    /\ lockfiles["npm"].kind = "wellFormed"
    /\ AnswerOf("npm").t = "string"
    /\ lookupResult = JsNull

\* ---------------------------------------------------------------------------
\* Claims about the target-version side map (SpecReport)
\* ---------------------------------------------------------------------------

\* The callbacks the engine made for the package, by position
CallbacksFor(packageName) ==
    { k \in 1..Len(env.engine.resolved) :
        JoinName(env.engine.resolved[k][1]) = packageName }

\* Those of them that reported a string version
StringCallbacksFor(packageName) ==
    { k \in CallbacksFor(packageName) : env.engine.resolved[k][2].kind # "null" }

Last(positions) == CHOOSE k \in positions : \A other \in positions : other <= k

\* Two candidates for one package carry the same target.version
SamePackageSameTarget ==
    \A i, j \in 1..Len(candidates) :
        candidates[i].packageName = candidates[j].packageName =>
            candidates[i].target.version = candidates[j].target.version

\* The statement as written: every candidate's target.version is the version
\* of the last callback made for its package name, null if no callback for
\* the name reported a string version.
C30_LastCallbackDecides ==
    CandidatesBuilt =>
        /\ \A i \in 1..Len(candidates) :
              LET packageName == candidates[i].packageName
              IN  candidates[i].target.version =
                      IF StringCallbacksFor(packageName) = {} THEN Null
                      ELSE env.engine.resolved[Last(CallbacksFor(packageName))][2]
        /\ SamePackageSameTarget

\* C30: the target-version side map is keyed by package name only: after any
\* sequence of side-channel callbacks, every candidate's target.version is the
\* version of the last callback made for its package name that reported a
\* string version (null if none did), so two candidates for the same package
\* in different manifests always carry the same target.version, whatever their
\* own current and suggested ranges.
C30_LastStringCallbackDecides ==
    CandidatesBuilt =>
        /\ \A i \in 1..Len(candidates) :
              LET packageName == candidates[i].packageName
              IN  candidates[i].target.version =
                      IF StringCallbacksFor(packageName) = {} THEN Null
                      ELSE env.engine.resolved[Last(StringCallbacksFor(packageName))][2]
        /\ SamePackageSameTarget

\* The engine called back twice for lodash, with 4.18.0 and then 5.0.0; the
\* root manifest and the app manifest declare lodash with different ranges and
\* were suggested different ranges, and both candidates carry 5.0.0
C30_Witness ==
    /\ CandidatesBuilt
    /\ env.engine.resolved = ResolvedTwice
    /\ \E i, j \in 1..Len(candidates) :
          /\ candidates[i].packageName = "lodash" /\ candidates[j].packageName = "lodash"
          /\ candidates[i].packageFile # candidates[j].packageFile
          /\ candidates[i].current.range # candidates[j].current.range
          /\ candidates[i].target.range # candidates[j].target.range
          /\ candidates[i].target.version = SemVer(5, 0, 0, 0)
          /\ candidates[j].target.version = SemVer(5, 0, 0, 0)

=============================================================================
